---- MODULE Spec2Model ----
(***************************************************************************)
(* LitNav main process (app/main.js): the in-memory workspace, the         *)
(* preprocess run (extract -> chunk -> embed) with its cancel token, the   *)
(* IPC handlers around it and the dense search.                            *)
(*                                                                         *)
(* The main process is one JavaScript event loop.  A handler runs without  *)
(* interruption up to its next `await`; other handlers run only while a    *)
(* run is suspended there.  Each action below is one such uninterrupted    *)
(* stretch: a handler call up to its first await, or the continuation of   *)
(* a run from the settlement of one awaited promise to the next await.     *)
(*                                                                         *)
(* Encoding of JavaScript values:                                          *)
(*   string (text)      sequence of its UTF-16 code units (numbers)        *)
(*   file path          a string of the finite universe Paths              *)
(*   null (token)       NULL                                               *)
(*   embedding: null    NullEmbedding                                      *)
(*   chunk id `${n}`    the number n (decimal formatting is injective)     *)
(*   Map                sequence of values in insertion order              *)
(***************************************************************************)
EXTENDS Integers, Sequences, FiniteSets, TLC

\* Number of preprocess calls that pass the entry guards in one behaviour.
MaxRuns == 2

\* Pages of a.pdf, one of them blank: with b.txt, more chunks than one batch.
BigPages == 65

\* Characters of b.txt: one window at the default chunk size, two at 200.
LongText == 250

NULL == 0
NullEmbedding == <<>>
batchSize == 64

RunIds == 1..MaxRuns

Min(a, b) == IF a < b THEN a ELSE b
Max(a, b) == IF a > b THEN a ELSE b

(***************************************************************************)
(* The environment: files on disk, the embedding provider.                 *)
(***************************************************************************)
Paths == {"a.pdf", "b.txt", "c.doc", "blank.PDF", "d.pdf", "e.pdf"}

\* path.extname(p)
ExtName(p) ==
  CASE p = "a.pdf" -> ".pdf"
    [] p = "b.txt" -> ".txt"
    [] p = "c.doc" -> ".doc"
    [] p = "blank.PDF" -> ".PDF"
    [] p = "d.pdf" -> ".pdf"
    [] p = "e.pdf" -> ".pdf"

\* String.prototype.toLowerCase on the extensions of the universe
ToLowerCase(e) == IF e = ".PDF" THEN ".pdf" ELSE e

\* Code units of the characters the texts of the model are written with:
\* tab, line feed, carriage return and space, and the letters q, x, y, z.
CodeUnits == <<9, 10, 13, 32, 113, 120, 121, 122>>
TAB == CodeUnits[1]
LF == CodeUnits[2]
CR == CodeUnits[3]
SP == CodeUnits[4]
LetterQ == CodeUnits[5]
LetterX == CodeUnits[6]
LetterY == CodeUnits[7]
LetterZ == CodeUnits[8]

\* What the page extractor / fs.readFileSync yields for each file.
FilePages(p) ==
  CASE p = "a.pdf" -> [i \in 1..BigPages |->
                         IF i = 2 THEN <<SP, CR, LF>>
                         ELSE IF i % 2 = 1 THEN <<LetterX>> ELSE <<LetterY, LetterZ>>]
    [] p = "b.txt" -> << [i \in 1..LongText |-> LetterZ] >>
    [] p = "c.doc" -> << <<LetterX>> >>
    [] p = "blank.PDF" -> << <<SP>> >>
    [] p = "d.pdf" -> << <<LetterX>>, <<LetterY, LetterZ>> >>
    [] p = "e.pdf" -> << <<LetterX>>, <<LetterZ>>, <<LetterX>>, <<LetterQ>> >>

\* Folder picked in the dialog of select-workspace, as walkDir lists it.
FolderEntries == <<"b.txt", "c.doc", "blank.PDF">>

\* Arguments of set-include-files.
IncludeArgs == { <<"a.pdf", "c.doc", "b.txt", "a.pdf">> }

\* The vector an OpenAI-compatible provider returns for a text.
EmbedOf(text) ==
  IF Len(text) = 0 THEN <<0, 0>>
  ELSE CASE text[1] = LetterX -> <<1, 0>>
         [] text[1] = LetterY -> <<0, 1>>
         [] text[1] = LetterZ -> <<3, 4>>
         [] OTHER -> <<0, 0>>

\* Ways an embedding request can settle when it is not aborted:
\*   ok       one vector per input, in order
\*   short    the last vector is missing
\*   long     one vector too many
\*   nodata   a body without data.data
\*   http     axios rejects (transport error, non-2xx, timeout)
ProviderKinds == {"ok", "short", "long", "nodata", "http"}

Queries == { <<LetterZ>> }
PerDocNs == {2}
\* the search invocations that may be suspended at a time
MaxSearches == 2

\* The hosts of the universe that are absolute URLs; "" is not.
AbsoluteUrls == {"http://h", "http://g"}

(***************************************************************************)
(* Pure functions of main.js                                               *)
(***************************************************************************)
\* The code units String.prototype.trim() removes: WhiteSpace (TAB, VT, FF,
\* SP, U+00A0, U+FEFF and the space separators U+1680, U+2000..U+200A,
\* U+202F, U+205F, U+3000) and LineTerminator (LF, CR, U+2028, U+2029) of
\* ECMAScript.  U+0085, U+180E and U+200B are not among them.
WhiteSpaceChars ==
  {9, 10, 11, 12, 13, 32, 160, 5760, 8232, 8233, 8239, 8287, 12288, 65279}
    \cup (8192..8202)

IsWhitespace(ch) == ch \in WhiteSpaceChars

\* String.prototype.trim().length === 0
TrimIsEmpty(text) == \A i \in 1..Len(text) : IsWhitespace(text[i])

\* String.prototype.slice(start, end), 0 <= start <= end <= length
Slice(text, start, end) == SubSeq(text, start + 1, end)

\* Mutant: the next window starts where the last one ended.
RECURSIVE ChunkWindows_StepBySize(_, _, _, _, _)
ChunkWindows_StepBySize(text, page, size, ov, start) ==
  IF ~(start < Len(text)) THEN <<>>
  ELSE LET end == Min(Len(text), start + size)
           c == [page |-> page, text |-> Slice(text, start, end)]
       IN IF end >= Len(text) THEN <<c>>
          ELSE <<c>> \o ChunkWindows_StepBySize(text, page, size, ov, end)

RECURSIVE ChunkWindows(_, _, _, _, _)
ChunkWindows(text, page, size, ov, start) ==
  IF ~(start < Len(text)) THEN <<>>
  ELSE LET end == Min(Len(text), start + size)
           c == [page |-> page, text |-> Slice(text, start, end)]
       IN IF end >= Len(text) THEN <<c>>
          ELSE <<c>> \o ChunkWindows(text, page, size, ov, end - ov)

\* Mutant: the blank test is missing.
chunkPageText_NoBlankTest(text, page, chunkSize, overlap) ==
  LET size == Max(200, chunkSize)
      ov == Max(0, Min(overlap, (size * 8) \div 10))
  IN ChunkWindows(text, page, size, ov, 0)

\* Mutant: the overlap is capped at half the size.
chunkPageText_HalfCap(text, page, chunkSize, overlap) ==
  IF Len(text) = 0 \/ TrimIsEmpty(text) THEN <<>>
  ELSE LET size == Max(200, chunkSize)
           ov == Max(0, Min(overlap, size \div 2))
       IN ChunkWindows(text, page, size, ov, 0)

\* Mutant: the overlap is capped one below the size.
chunkPageText_CapBelowSize(text, page, chunkSize, overlap) ==
  IF Len(text) = 0 \/ TrimIsEmpty(text) THEN <<>>
  ELSE LET size == Max(200, chunkSize)
           ov == Max(0, Min(overlap, size - 1))
       IN ChunkWindows(text, page, size, ov, 0)

chunkPageText(text, page, chunkSize, overlap) ==
  IF Len(text) = 0 \/ TrimIsEmpty(text) THEN <<>>
  ELSE LET size == Max(200, chunkSize)
           ov == Max(0, Min(overlap, (size * 8) \div 10))
       IN ChunkWindows(text, page, size, ov, 0)

RECURSIVE dotFrom(_, _, _)
dotFrom(a, b, i) ==
  IF i > Len(a) THEN 0 ELSE a[i] * b[i] + dotFrom(a, b, i + 1)

dot(a, b) == dotFrom(a, b, 1)

\* Math.sqrt on the perfect squares the vectors of EmbedOf produce
Sqrt(n) == CHOOSE k \in 0..n : k * k = n

norm(a) == Sqrt(dot(a, a))


(***************************************************************************)
(* State                                                                   *)
(***************************************************************************)
VARIABLES
  root,               \* workspace.root: "" for null
  includeFiles,       \* workspace.includeFiles
  docs,               \* workspace.docs, a Map in insertion order
  settings,           \* workspace.settings
  currentPreprocess,  \* the global token reference: NULL or the run whose token it is
  tokens,             \* the token objects { cancelled, controller, running }, one per run
  runs,               \* the locals of each preprocess invocation and where it is suspended
  events,             \* what was sent to the renderer since the last accepted preprocess
  search,             \* the search invocations suspended in their query embedding request
  call,               \* a direct call of a pure function: its arguments and its result
  documentMode,       \* renderer: the mode displayed, "multi" or "single"
  multiDocState,      \* renderer: the all-documents state object of App
  singleDocState,     \* renderer: the single-document state object of App
  invokes,            \* main process: whether the exhaustive-search channels have
                      \* handlers, and the select-workspace calls whose dialog is open
  sweeps,             \* main process: the exhaustive sweep of each mode
  ui                  \* renderer: the preprocessing state of App, the messages between
                      \* window and main process, the clicks made

\* the state of the main process, and the state the renderer side adds
mainVars == <<root, includeFiles, docs, settings, currentPreprocess, tokens, runs,
              events, search, call>>
sweepVars == <<documentMode, multiDocState, singleDocState, invokes, sweeps>>
renderer == <<documentMode, multiDocState, singleDocState, invokes, sweeps, ui>>

vars == <<root, includeFiles, docs, settings, currentPreprocess, tokens, runs,
          events, search, call, documentMode, multiDocState, singleDocState,
          invokes, sweeps, ui>>

NoRet == [kind |-> "none", docCount |-> 0, chunkCount |-> 0, message |-> ""]

\* no embedding request of the run is under way
NoRequest == [url |-> "", model |-> "", authorization |-> "", inputs |-> 0]

RunInit ==
  [pc |-> "none", result |-> "", cause |-> "", phase |-> "",
   files |-> <<>>, idx |-> 0, fileIndex |-> 0, globalChunkId |-> 0,
   chunkSize |-> 0, chunkOverlap |-> 0,
   embeddingHost |-> "", embeddingModel |-> "", apiKey |-> "",
   allChunks |-> <<>>, i |-> 0, processed |-> 0, request |-> NoRequest,
   ret |-> NoRet]

TokenInit == [cancelled |-> FALSE, aborted |-> FALSE, running |-> FALSE]

\* no search invocation is suspended
NoSearch == <<>>

NoCall == [pc |-> "none"]

\* The workspace and the token as the module is loaded.
WorkspaceInit ==
  /\ root = ""
  /\ includeFiles = <<>>
  /\ docs = <<>>
  /\ settings = [embeddingHost |-> "", embeddingModel |-> "", apiKey |-> "",
                 chunkSize |-> 1200, chunkOverlap |-> 200]
  /\ currentPreprocess = NULL
  /\ tokens = [r \in RunIds |-> TokenInit]
  /\ runs = [r \in RunIds |-> RunInit]
  /\ events = <<>>
  /\ search = NoSearch

\* App as it is mounted: both modes idle with empty buckets, the
\* all-documents mode displayed; no sweep in the main process.
Modes == {"multi", "single"}
EmptyResults == [relevant |-> <<>>, nonRelevant |-> <<>>, uncertain |-> <<>>]
NoProgress == <<>>
\* multiDocState (1829-1838) and singleDocState (1841-1851) as mounted
MultiStateInit ==
  [query |-> <<>>,
   exhaustiveSearchRunning |-> FALSE,
   exhaustiveSearchProgress |-> NoProgress,
   exhaustiveSearchResults |-> EmptyResults]
SingleStateInit ==
  [selectedDocument |-> "",
   query |-> <<>>,
   exhaustiveSearchRunning |-> FALSE,
   exhaustiveSearchProgress |-> NoProgress,
   exhaustiveSearchResults |-> EmptyResults]
\* src/app/main.js: no ipcMain.handle for the two exhaustive-search
\* channels; no select-workspace call suspended in its dialog
InvokeIdle == [handlers |-> FALSE, dialogs |-> <<>>]
SweepIdle == [pc |-> "idle", current |-> 0, total |-> 0, cancel |-> FALSE,
              failed |-> FALSE]
\* a sweep that has sent its cancelled event
SweepCancelledIdle == [SweepIdle EXCEPT !.pc = "cancelled"]

\* a settings object without keys
NoSettings ==
  [embeddingHost |-> "-", embeddingModel |-> "-", apiKey |-> "-",
   chunkSize |-> -1, chunkOverlap |-> -1, llm |-> FALSE]
\* localStorage without the item litnav.settings
NoStored == [present |-> FALSE, settings |-> NoSettings]
\* no run of the effect initializeSettings is due
NoEffect == [pending |-> FALSE, hasFiles |-> FALSE]

\* whether a workspace is set (App.jsx 1809) and the files state (1810),
\* processing and processed (1824-1825), of the settings state (1811-1821)
\* the embedding host and model and whether llmHost and llmModel are both
\* set, the item litnav.settings of localStorage, whether a run of the
\* effect initializeSettings is due and the files.length > 0 of its render,
\* the messages between window and main process, and the clicks made
UiIdle ==
  [workspace |-> FALSE, files |-> <<>>, processing |-> FALSE, processed |-> FALSE,
   embeddingHost |-> "", embeddingModel |-> "", llm |-> FALSE,
   stored |-> NoStored, effect |-> NoEffect,
   toMain |-> <<>>, toWin |-> <<>>, clicks |-> 0]

WindowInit ==
  /\ documentMode = "multi"
  /\ multiDocState = MultiStateInit
  /\ singleDocState = SingleStateInit
  /\ invokes = InvokeIdle
  /\ sweeps = [m \in Modes |-> SweepIdle]

RendererInit == WindowInit /\ ui = UiIdle

Init == WorkspaceInit /\ call = NoCall /\ RendererInit

(***************************************************************************)
(* Map helpers (workspace.docs)                                            *)
(***************************************************************************)
MapHas(m, id) == \E k \in 1..Len(m) : m[k].id = id
MapIndex(m, id) == CHOOSE k \in 1..Len(m) : m[k].id = id
\* Map.prototype.set: an existing key keeps its place
MapSet(m, id, v) ==
  IF MapHas(m, id) THEN [m EXCEPT ![MapIndex(m, id)] = v] ELSE Append(m, v)

(***************************************************************************)
(* Events                                                                  *)
(***************************************************************************)
Ev(name, r, phase, current, total, file, docCount, chunkCount, message) ==
  [name |-> name, run |-> r, phase |-> phase, current |-> current,
   total |-> total, file |-> file, docCount |-> docCount,
   chunkCount |-> chunkCount, message |-> message]

ProgressEv(r, phase, current, total, file) ==
  Ev("preprocess-progress", r, phase, current, total, file, 0, 0, "")
CompleteEv(r, summary) ==
  Ev("preprocess-complete", r, "", 0, 0, "", summary.docCount, summary.chunkCount, "")
CancelledEv(r) == Ev("preprocess-cancelled", r, "", 0, 0, "", 0, 0, "")
ErrorEv(r, message) == Ev("preprocess-error", r, "", 0, 0, "", 0, 0, message)

(***************************************************************************)
(* Simple handlers                                                         *)
(***************************************************************************)
\* walkDir keeps .pdf/.txt/.md; select-workspace keeps the .pdf of those
IsPdf(p) == ToLowerCase(ExtName(p)) = ".pdf"
WalkKeeps(p) == ToLowerCase(ExtName(p)) \in {".pdf", ".txt", ".md"}
walkDir == SelectSeq(FolderEntries, WalkKeeps)

SelectWorkspace ==
  /\ \E canceled \in BOOLEAN :
       IF canceled
       THEN UNCHANGED <<root, includeFiles>>
       ELSE /\ root' = "ws"
            /\ includeFiles' = SelectSeq(walkDir, IsPdf)
  /\ UNCHANGED <<docs, settings, currentPreprocess, tokens, runs, events,
                 search, call, renderer>>

\* Partial settings objects the renderer may send; absent keys are "-" / -1.
SettingsArgs ==
  { [embeddingHost |-> "http://h", embeddingModel |-> "m", apiKey |-> "-",
     chunkSize |-> -1, chunkOverlap |-> -1],
    [embeddingHost |-> "", embeddingModel |-> "-", apiKey |-> "-",
     chunkSize |-> -1, chunkOverlap |-> -1],
    [embeddingHost |-> "-", embeddingModel |-> "-", apiKey |-> "-",
     chunkSize |-> 200, chunkOverlap |-> 50] }

\* { ...workspace.settings, ...settings }
MergeSettings(old, s) ==
  [embeddingHost |-> IF s.embeddingHost = "-" THEN old.embeddingHost ELSE s.embeddingHost,
   embeddingModel |-> IF s.embeddingModel = "-" THEN old.embeddingModel ELSE s.embeddingModel,
   apiKey |-> IF s.apiKey = "-" THEN old.apiKey ELSE s.apiKey,
   chunkSize |-> IF s.chunkSize = -1 THEN old.chunkSize ELSE s.chunkSize,
   chunkOverlap |-> IF s.chunkOverlap = -1 THEN old.chunkOverlap ELSE s.chunkOverlap]

SetSettings ==
  /\ \E s \in SettingsArgs : settings' = MergeSettings(settings, s)
  /\ UNCHANGED <<root, includeFiles, docs, currentPreprocess, tokens, runs,
                 events, search, call, renderer>>

SetIncludeFiles ==
  /\ \E files \in IncludeArgs : includeFiles' = files
  /\ UNCHANGED <<root, docs, settings, currentPreprocess, tokens, runs,
                 events, search, call, renderer>>

ResetWorkspace ==
  /\ root' = ""
  /\ includeFiles' = <<>>
  /\ docs' = <<>>
  /\ UNCHANGED <<settings, currentPreprocess, tokens, runs, events, search, call, renderer>>


(***************************************************************************)
(* preprocess: the run                                                     *)
(*                                                                         *)
(* A run in progress is the record st = [docs, events, run]: the document  *)
(* collection, the events sent and the locals of the invocation.  The      *)
(* operators below carry st from one await to the next.  run.pc is         *)
(*   "extractAwait"  suspended in `await loadPdfTextPages(filePath)`       *)
(*   "embedAwait"    suspended in `await embedBatch(...)`                  *)
(*   "done"          returned or threw; result/cause/ret say how           *)
(* events is the log since the last accepted call: accepting a call starts *)
(* it afresh and forgets the locals of the invocations that had ended (pc  *)
(* "past"); their token objects stay as they were left.                    *)
(* Every document carries `owner`, the run that created the object, which  *)
(* stands for object identity: a run writes embeddings through references  *)
(* to the chunk objects it flattened, whether or not they are still in     *)
(* the collection.                                                         *)
(***************************************************************************)
Past == [RunInit EXCEPT !.pc = "past"]

MsgNotConfigured == "WorkspaceNotConfigured"   \* main.js:203
MsgAlreadyRunning == "AlreadyRunning"          \* main.js:206
MsgSettings == "SettingsIncomplete"            \* main.js:210
MsgCancelledByUser == "PreprocessCancelled"    \* main.js:295
MsgNotReady == "NotReady"                      \* main.js:315
MsgInvalidResponse == "Invalid embedding response"
MsgAxiosCanceled == "canceled"                 \* axios CanceledError
MsgAxiosError == "Request failed"              \* any other axios rejection
MsgExtractError == "ExtractFailed"             \* pdfjs / fs rejection
MsgTypeError == "TypeError"

\* Mutant: the guard without the test of currentPreprocess.running.
PreprocessGuard_NoRunningTest(rt, inc, cur, toks, st) ==
  IF rt = "" \/ Len(inc) = 0 THEN MsgNotConfigured
  ELSE IF st.embeddingHost = "" \/ st.embeddingModel = "" THEN MsgSettings
  ELSE "ok"

\* Mutant: the settings are tested before the running flag.
PreprocessGuard_SettingsFirst(rt, inc, cur, toks, st) ==
  IF rt = "" \/ Len(inc) = 0 THEN MsgNotConfigured
  ELSE IF st.embeddingHost = "" \/ st.embeddingModel = "" THEN MsgSettings
  ELSE IF cur # NULL /\ toks[cur].running THEN MsgAlreadyRunning
  ELSE "ok"

\* The entry guards, in the order of the code.
PreprocessGuard(rt, inc, cur, toks, st) ==
  IF rt = "" \/ Len(inc) = 0 THEN MsgNotConfigured
  ELSE IF cur # NULL /\ toks[cur].running THEN MsgAlreadyRunning
  ELSE IF st.embeddingHost = "" \/ st.embeddingModel = "" THEN MsgSettings
  ELSE "ok"

\* Mutant: the loops never look at the flag.
CancelCheck_Never(r, cur, toks) ==
  IF cur = NULL THEN MsgTypeError ELSE "ok"

\* currentPreprocess.cancelled || controller.signal.aborted
CancelCheck(r, cur, toks) ==
  IF cur = NULL THEN MsgTypeError
  ELSE IF toks[cur].cancelled \/ toks[r].aborted THEN "CANCELLED"
  ELSE "ok"

Chunk(id, page, text) ==
  [id |-> id, page |-> page, text |-> text, embedding |-> NullEmbedding, norm |-> 0]

\* pages.forEach((t, i) => ...): the chunks of pages i+1.., ids from nextId
RECURSIVE PageChunks(_, _, _, _, _)
PageChunks(pages, i, nextId, chunkSize, chunkOverlap) ==
  IF i >= Len(pages) THEN <<>>
  ELSE LET page == i + 1
           pageChunks == chunkPageText(pages[page], page, chunkSize, chunkOverlap)
           cs == [k \in 1..Len(pageChunks) |->
                    Chunk(nextId + k - 1, page, pageChunks[k].text)]
       IN cs \o PageChunks(pages, i + 1, nextId + Len(pageChunks), chunkSize, chunkOverlap)

\* Mutant: chunk ids restart with every file.
StoreDoc_PerFileIds(st, r, filePath, pages, total) ==
  LET chunks == PageChunks(pages, 0, 0, st.run.chunkSize, st.run.chunkOverlap)
      doc == [id |-> filePath, path |-> filePath, pages |-> Len(pages),
              chunks |-> chunks, owner |-> r]
      fileIndex == st.run.fileIndex + 1
  IN [docs |-> MapSet(st.docs, filePath, doc),
      events |-> Append(st.events, ProgressEv(r, "extract", fileIndex, total, filePath)),
      run |-> [st.run EXCEPT !.fileIndex = fileIndex, !.idx = @ + 1]]

\* Lines 244-254: chunk the pages, store the document, report the file.
StoreDoc(st, r, filePath, pages, total) ==
  LET chunks == PageChunks(pages, 0, st.run.globalChunkId,
                           st.run.chunkSize, st.run.chunkOverlap)
      doc == [id |-> filePath, path |-> filePath, pages |-> Len(pages),
              chunks |-> chunks, owner |-> r]
      fileIndex == st.run.fileIndex + 1
  IN [docs |-> MapSet(st.docs, filePath, doc),
      events |-> Append(st.events, ProgressEv(r, "extract", fileIndex, total, filePath)),
      run |-> [st.run EXCEPT !.globalChunkId = @ + Len(chunks),
                             !.fileIndex = fileIndex,
                             !.idx = @ + 1]]

\* Mutant: a skipped entry is passed over without a progress event.
SkipFile_Silent(st, r, filePath, total) ==
  [st EXCEPT !.run.idx = @ + 1]

\* Lines 240-242: an unsupported extension only advances the progress.
SkipFile(st, r, filePath, total) ==
  LET fileIndex == st.run.fileIndex + 1
  IN [st EXCEPT !.events = Append(@, ProgressEv(r, "extract", fileIndex, total, filePath)),
                !.run.fileIndex = fileIndex,
                !.run.idx = @ + 1]

\* throw inside the try block: the run goes to its catch clause
Throw(st, message, cause) ==
  [st EXCEPT !.run.pc = "catch", !.run.ret = [NoRet EXCEPT !.kind = "error", !.message = message],
             !.run.cause = cause]

\* The text files of the universe, and the sets of them fs.readFileSync
\* (line 237) may fail on while one stretch of a run is executed.
TextPaths == {p \in Paths : ToLowerCase(ExtName(p)) \in {".txt", ".md"}}
UnreadableSets == SUBSET TextPaths

\* Lines 229-255 from the file at run.idx on, up to the next await; a text
\* file of `unreadable` makes fs.readFileSync throw.
RECURSIVE ExtractLoop(_, _, _, _, _)
ExtractLoop(st, r, total, check, unreadable) ==
  IF st.run.idx >= Len(st.run.files) THEN [st EXCEPT !.run.pc = "flatten"]
  ELSE IF check = "CANCELLED" THEN Throw(st, "CANCELLED", "flag")
  ELSE IF check # "ok" THEN Throw(st, check, "internal")
  ELSE LET filePath == st.run.files[st.run.idx + 1]
           ext == ToLowerCase(ExtName(filePath))
       IN IF ext = ".pdf" THEN [st EXCEPT !.run.pc = "extractAwait"]
          ELSE IF ext = ".txt" \/ ext = ".md"
          THEN IF filePath \in unreadable
               THEN Throw(st, MsgExtractError, "io")
               ELSE ExtractLoop(StoreDoc(st, r, filePath, <<FilePages(filePath)[1]>>, total),
                                r, total, check, unreadable)
          ELSE ExtractLoop(SkipFile(st, r, filePath, total), r, total, check, unreadable)

\* Lines 258-261: one reference per chunk, documents in Map order.
RECURSIVE Flatten(_, _)
Flatten(ds, d) ==
  IF d > Len(ds) THEN <<>>
  ELSE [k \in 1..Len(ds[d].chunks) |->
          [docId |-> ds[d].id, owner |-> ds[d].owner, k |-> k,
           text |-> ds[d].chunks[k].text]]
       \o Flatten(ds, d + 1)

\* Lines 258-266: flatten and announce the embed phase.
EmbedStart(st, r) ==
  LET allChunks == Flatten(st.docs, 1)
  IN [st EXCEPT !.events = Append(@, ProgressEv(r, "embed", 0, Len(allChunks), "")),
                !.run.allChunks = allChunks,
                !.run.phase = "embed",
                !.run.i = 0,
                !.run.processed = 0,
                !.run.pc = "embedLoop"]

\* embedBatch, lines 146-157: the request for n inputs: the URL made of the
\* host, the model, and the Authorization header if there is a key.  The
\* hosts of the universe are origins without a path, for which
\* new URL('/v1/embeddings', host).toString() is the host followed by the
\* path, and which hold no '/v1/v1/' to replace.
EmbedRequest(n, host, model, apiKey) ==
  [url |-> host \o "/v1/embeddings", model |-> model,
   authorization |-> IF apiKey = "" THEN "" ELSE "Bearer " \o apiKey,
   inputs |-> n]

\* the inputs of the batch at run.i: Math.min(batchSize, allChunks.length - i)
BatchLen(run) == Min(batchSize, Len(run.allChunks) - run.i)

\* Mutant: the request is made with the settings as they are by now.
EmbedLoop_LiveSettings(st, check) ==
  IF ~(st.run.i < Len(st.run.allChunks)) THEN [st EXCEPT !.run.pc = "summary"]
  ELSE IF check = "CANCELLED" THEN Throw(st, "CANCELLED", "flag")
  ELSE IF check # "ok" THEN Throw(st, check, "internal")
  ELSE [st EXCEPT !.run.pc = "embedAwait",
                  !.run.request = EmbedRequest(BatchLen(st.run), settings.embeddingHost,
                                               settings.embeddingModel, settings.apiKey)]

\* Lines 267-271: loop test, cancel check, then the request goes out with
\* the host, model and key the invocation destructured at line 209.
EmbedLoop(st, check) ==
  IF ~(st.run.i < Len(st.run.allChunks)) THEN [st EXCEPT !.run.pc = "summary"]
  ELSE IF check = "CANCELLED" THEN Throw(st, "CANCELLED", "flag")
  ELSE IF check # "ok" THEN Throw(st, check, "internal")
  ELSE [st EXCEPT !.run.pc = "embedAwait",
                  !.run.request = EmbedRequest(BatchLen(st.run), st.run.embeddingHost,
                                               st.run.embeddingModel, st.run.apiKey)]

\* Mutant: the norm is not stored with the embedding.
SetChunk_EmbeddingOnly(ds, ref, emb) ==
  IF \E d \in 1..Len(ds) : ds[d].id = ref.docId /\ ds[d].owner = ref.owner
  THEN LET d == CHOOSE d \in 1..Len(ds) : ds[d].id = ref.docId /\ ds[d].owner = ref.owner
       IN [ds EXCEPT ![d].chunks[ref.k].embedding = emb]
  ELSE ds

\* c.embedding = embs[j]; c.norm = norm(c.embedding) on the referenced object
SetChunk(ds, ref, emb) ==
  IF \E d \in 1..Len(ds) : ds[d].id = ref.docId /\ ds[d].owner = ref.owner
  THEN LET d == CHOOSE d \in 1..Len(ds) : ds[d].id = ref.docId /\ ds[d].owner = ref.owner
       IN [ds EXCEPT ![d].chunks[ref.k].embedding = emb,
                     ![d].chunks[ref.k].norm = norm(emb)]
  ELSE ds

\* Lines 272-277 from j on.  allChunks[i + j] past the end is undefined and
\* destructuring it throws.
RECURSIVE AssignEmbs(_, _, _)
AssignEmbs(st, embs, j) ==
  IF ~(j < Len(embs)) THEN st
  ELSE IF st.run.i + j >= Len(st.run.allChunks) THEN Throw(st, MsgTypeError, "internal")
  ELSE AssignEmbs([st EXCEPT !.docs = SetChunk(@, st.run.allChunks[st.run.i + j + 1], embs[j + 1]),
                             !.run.processed = @ + 1],
                  embs, j + 1)

\* Mutant: the progress reports the size of the batch, not the running total.
AfterBatch_BatchCount(st, r) ==
  IF st.run.pc = "catch" THEN st
  ELSE [st EXCEPT !.events = Append(@, ProgressEv(r, "embed",
                                 Min(batchSize, Len(st.run.allChunks) - st.run.i),
                                 Len(st.run.allChunks), "")),
                  !.run.i = @ + batchSize,
                  !.run.pc = "embedLoop"]

\* Lines 278-279: report the batch, i += batchSize.
AfterBatch(st, r) ==
  IF st.run.pc = "catch" THEN st
  ELSE [st EXCEPT !.events = Append(@, ProgressEv(r, "embed", st.run.processed,
                                                  Len(st.run.allChunks), "")),
                  !.run.i = @ + batchSize,
                  !.run.pc = "embedLoop"]

RECURSIVE SumChunks(_, _)
SumChunks(ds, d) == IF d > Len(ds) THEN 0 ELSE Len(ds[d].chunks) + SumChunks(ds, d + 1)

\* Mutant: the summary counts only the chunks that were embedded.
Summary_EmbeddedOnly(ds) ==
  LET allCs == Flatten(ds, 1)
  IN [docCount |-> Len(ds),
      chunkCount |-> Cardinality({k \in 1..Len(allCs) :
                       ds[MapIndex(ds, allCs[k].docId)].chunks[allCs[k].k].embedding
                         # NullEmbedding})]

\* Lines 282-287
Summary(ds) == [docCount |-> Len(ds), chunkCount |-> SumChunks(ds, 1)]

\* Lines 287-289
Complete(st, r) ==
  LET summary == Summary(st.docs)
  IN [st EXCEPT !.events = Append(@, CompleteEv(r, summary)),
                !.run.pc = "done",
                !.run.result = "complete",
                !.run.ret = [kind |-> "summary", docCount |-> summary.docCount,
                             chunkCount |-> summary.chunkCount, message |-> ""]]

\* Mutant: the cancel branch without workspace.docs.clear().
CatchCancelled_KeepsDocs(st, r) ==
  [st EXCEPT !.events = Append(@, CancelledEv(r)),
             !.run.pc = "done",
             !.run.result = "cancelled",
             !.run.ret = [NoRet EXCEPT !.kind = "error", !.message = MsgCancelledByUser]]

\* Lines 292-296
CatchCancelled(st, r) ==
  [st EXCEPT !.docs = <<>>,
             !.events = Append(@, CancelledEv(r)),
             !.run.pc = "done",
             !.run.result = "cancelled",
             !.run.ret = [NoRet EXCEPT !.kind = "error", !.message = MsgCancelledByUser]]

\* Mutant: the error branch discards the collection as the cancel branch does.
CatchError_ClearsDocs(st, r) ==
  [st EXCEPT !.docs = <<>>,
             !.events = Append(@, ErrorEv(r, st.run.ret.message)),
             !.run.pc = "done",
             !.run.result = "error"]

\* Lines 297-298
CatchError(st, r) ==
  [st EXCEPT !.events = Append(@, ErrorEv(r, st.run.ret.message)),
             !.run.pc = "done",
             !.run.result = "error"]

\* Mutant: the cancel branch does not throw and falls through to the
\* error report.
Catch_FallsThrough(st, r) ==
  IF st.run.ret.message = "CANCELLED"
  THEN [CatchError(CatchCancelled(st, r), r) EXCEPT !.run.result = "cancelled"]
  ELSE CatchError(st, r)

\* Lines 290-298
Catch(st, r) ==
  IF st.run.ret.message = "CANCELLED" THEN CatchCancelled(st, r) ELSE CatchError(st, r)

\* Runs the synchronous code from st.run.pc to the next await or to the end.
RECURSIVE Advance(_, _, _, _, _)
Advance(st, r, total, check, unreadable) ==
  CASE st.run.pc = "extractLoop" ->
         Advance(ExtractLoop(st, r, total, check, unreadable), r, total, check, unreadable)
    [] st.run.pc = "flatten" -> Advance(EmbedStart(st, r), r, total, check, unreadable)
    [] st.run.pc = "embedLoop" -> Advance(EmbedLoop(st, check), r, total, check, unreadable)
    [] st.run.pc = "summary" -> Advance(Complete(st, r), r, total, check, unreadable)
    [] st.run.pc = "catch" -> Advance(Catch(st, r), r, total, check, unreadable)
    [] OTHER -> st

\* Mutant: the finally block is missing, the token of a run that ended
\* stays in place.
Finally_KeepsSlot(st, cur, toks) ==
  [cur |-> cur, toks |-> toks]

\* finally (lines 299-302), when the invocation has ended
Finally(st, cur, toks) ==
  IF st.run.pc = "done"
  THEN [cur |-> NULL,
        toks |-> IF cur # NULL THEN [toks EXCEPT ![cur].running = FALSE] ELSE toks]
  ELSE [cur |-> cur, toks |-> toks]

\* The locals of an invocation that has ended are gone; how it ended and
\* the list it went through stay.
Ended(run) ==
  [RunInit EXCEPT !.pc = "done", !.result = run.result, !.cause = run.cause,
                  !.phase = run.phase, !.ret = run.ret, !.files = run.files]

\* Publishes the outcome of one uninterrupted stretch of run r; rs and toks
\* are the runs and tokens it started from.
Commit(st, r, cur, toks, rs) ==
  LET fin == Finally(st, cur, toks)
  IN /\ docs' = st.docs
     /\ events' = st.events
     /\ runs' = [rs EXCEPT ![r] = IF st.run.pc = "done" THEN Ended(st.run) ELSE st.run]
     /\ currentPreprocess' = fin.cur
     /\ tokens' = fin.toks

\* Mutant: the collection is cleared before the guards are evaluated.
PreprocessReject_ClearsFirst ==
  /\ docs' = <<>>
  /\ UNCHANGED <<root, includeFiles, settings, currentPreprocess, tokens,
                 runs, events, search, call, renderer>>

\* A rejected call: the guard threw before anything was touched.
PreprocessReject ==
     UNCHANGED <<root, includeFiles, docs, settings, currentPreprocess, tokens,
                 runs, events, search, call, renderer>>

\* Mutant: the token of the run before is taken over, flags as they are.
NewToken_Reused(last) ==
  [last EXCEPT !.running = TRUE]

\* Lines 213-214: a new controller and a new token object for the run;
\* last is the token of the run before, which is not looked at.
NewToken(last) ==
  [cancelled |-> FALSE, aborted |-> FALSE, running |-> TRUE]

\* Lines 209-227 and on to the first await: what the main process does.
AcceptRun(r) ==
  LET toks == [q \in RunIds |->
                 IF q = r THEN NewToken(IF r > 1 THEN tokens[r - 1] ELSE TokenInit)
                 ELSE tokens[q]]
      rs == [q \in RunIds |-> IF runs[q].pc = "done" THEN Past ELSE runs[q]]
      total == Len(includeFiles)
      run0 == [RunInit EXCEPT !.pc = "extractLoop", !.phase = "extract",
                 !.files = includeFiles,
                 !.chunkSize = settings.chunkSize,
                 !.chunkOverlap = settings.chunkOverlap,
                 !.embeddingHost = settings.embeddingHost,
                 !.embeddingModel = settings.embeddingModel,
                 !.apiKey = settings.apiKey]
      st0 == [docs |-> <<>>,
              events |-> <<ProgressEv(r, "extract", 0, total, "")>>,
              run |-> run0]
  IN /\ \E unreadable \in UnreadableSets :
          Commit(Advance(st0, r, total, CancelCheck(r, r, toks), unreadable),
                 r, r, toks, rs)
     /\ UNCHANGED <<root, includeFiles, settings, search, call>>

PreprocessAccept(r) == AcceptRun(r) /\ UNCHANGED renderer

Preprocess ==
  LET g == PreprocessGuard(root, includeFiles, currentPreprocess, tokens, settings)
  IN IF g # "ok" THEN PreprocessReject
     ELSE \E r \in RunIds :
            /\ runs[r].pc = "none"
            /\ \A q \in RunIds : q < r => runs[q].pc # "none"
            /\ PreprocessAccept(r)

\* `await loadPdfTextPages(filePath)` settles: what the main process does.
ExtractStep(r) ==
  /\ runs[r].pc = "extractAwait"
  /\ \E ok \in BOOLEAN, unreadable \in UnreadableSets :
       LET st == [docs |-> docs, events |-> events, run |-> runs[r]]
           filePath == runs[r].files[runs[r].idx + 1]
           total == Len(includeFiles)
           next == IF ok
                   THEN [StoreDoc(st, r, filePath, FilePages(filePath), total)
                           EXCEPT !.run.pc = "extractLoop"]
                   ELSE Throw(st, MsgExtractError, "io")
       IN Commit(Advance(next, r, total, CancelCheck(r, currentPreprocess, tokens),
                         unreadable),
                 r, currentPreprocess, tokens, runs)
  /\ UNCHANGED <<root, includeFiles, settings, search, call>>

ExtractSettle(r) == ExtractStep(r) /\ UNCHANGED renderer

\* The vectors of a response that has data.data
ResponseVectors(inputs, kind) ==
  LET full == [k \in 1..Len(inputs) |-> EmbedOf(inputs[k])]
  IN CASE kind = "short" -> SubSeq(full, 1, Len(full) - 1)
       [] kind = "long" -> Append(full, <<0, 1>>)
       [] OTHER -> full

\* inputs.slice(i, end)
BatchInputs(run) ==
  LET end == Min(Len(run.allChunks), run.i + batchSize)
  IN [k \in 1..(end - run.i) |-> run.allChunks[run.i + k].text]

\* `await embedBatch(...)` settles, the request was not aborted: what the
\* main process does.  No file is read from here on.
EmbedStep(r) ==
  /\ runs[r].pc = "embedAwait"
  /\ ~tokens[r].aborted
  /\ \E kind \in ProviderKinds :
       LET st == [docs |-> docs, events |-> events,
                  run |-> [runs[r] EXCEPT !.request = NoRequest]]
           total == Len(includeFiles)
           next == CASE kind = "http" -> Throw(st, MsgAxiosError, "provider")
                     [] kind = "nodata" -> Throw(st, MsgInvalidResponse, "provider")
                     [] OTHER ->
                        AfterBatch(AssignEmbs(st, ResponseVectors(BatchInputs(runs[r]), kind), 0), r)
       IN Commit(Advance(next, r, total, CancelCheck(r, currentPreprocess, tokens), {}),
                 r, currentPreprocess, tokens, runs)
  /\ UNCHANGED <<root, includeFiles, settings, search, call>>

EmbedSettle(r) == EmbedStep(r) /\ UNCHANGED renderer

\* controller.abort() reached the request in flight: axios rejects it with
\* a CanceledError, whose message is "canceled": what the main process does.
AbortStep(r) ==
  /\ runs[r].pc = "embedAwait"
  /\ tokens[r].aborted
  /\ LET st == [docs |-> docs, events |-> events,
                run |-> [runs[r] EXCEPT !.request = NoRequest]]
     IN Commit(Advance(Throw(st, MsgAxiosCanceled, "abort"), r, Len(includeFiles),
                       CancelCheck(r, currentPreprocess, tokens), {}),
               r, currentPreprocess, tokens, runs)
  /\ UNCHANGED <<root, includeFiles, settings, search, call>>

EmbedAborted(r) == AbortStep(r) /\ UNCHANGED renderer

\* Mutant: an accepted cancel discards the collection at once.
PreprocessCancel_ClearsDocs ==
  IF currentPreprocess # NULL /\ tokens[currentPreprocess].running
  THEN /\ tokens' = [tokens EXCEPT ![currentPreprocess].cancelled = TRUE,
                                   ![currentPreprocess].aborted = TRUE]
       /\ docs' = <<>>
       /\ UNCHANGED <<root, includeFiles, settings, currentPreprocess, runs,
                      events, search, call, renderer>>
  ELSE /\ UNCHANGED <<root, includeFiles, docs, settings, currentPreprocess, tokens,
                      runs, events, search, call, renderer>>

PreprocessCancel_AbortsSearch ==
  IF currentPreprocess # NULL /\ tokens[currentPreprocess].running
  THEN /\ tokens' = [tokens EXCEPT ![currentPreprocess].cancelled = TRUE,
                                   ![currentPreprocess].aborted = TRUE]
       /\ search' = NoSearch
       /\ UNCHANGED <<root, includeFiles, docs, settings, currentPreprocess, runs,
                      events, call, renderer>>
  ELSE /\ UNCHANGED <<root, includeFiles, docs, settings, currentPreprocess, tokens,
                      runs, events, search, call, renderer>>

\* preprocess-cancel
CancelReturns(cur, toks) == cur # NULL /\ toks[cur].running

PreprocessCancel ==
  IF CancelReturns(currentPreprocess, tokens)
  THEN /\ tokens' = [tokens EXCEPT ![currentPreprocess].cancelled = TRUE,
                                   ![currentPreprocess].aborted = TRUE]
       /\ UNCHANGED <<root, includeFiles, docs, settings, currentPreprocess, runs,
                      events, search, call, renderer>>
  ELSE /\ UNCHANGED <<root, includeFiles, docs, settings, currentPreprocess, tokens,
                      runs, events, search, call, renderer>>


(***************************************************************************)
(* search                                                                  *)
(*                                                                         *)
(* Scores are kept in units of 1/ScoreUnit; with the vectors of EmbedOf    *)
(* (norms 0, 1 and 5) every cosine is a whole number of units.             *)
(***************************************************************************)
ScoreUnit == 100

\* Mutant: the guard is `||`; the quotient by a zero norm is no score (-1).
Similarity_OrGuard(qEmb, qNorm, c) ==
  IF qNorm # 0 \/ c.norm # 0
  THEN IF qNorm * c.norm = 0 THEN -1
       ELSE (dot(qEmb, c.embedding) * ScoreUnit) \div (qNorm * c.norm)
  ELSE 0

\* qNorm && c.norm ? dot(qEmb, c.embedding) / (qNorm * c.norm) : 0
Similarity(qEmb, qNorm, c) ==
  IF qNorm # 0 /\ c.norm # 0
  THEN (dot(qEmb, c.embedding) * ScoreUnit) \div (qNorm * c.norm)
  ELSE 0

\* Array.prototype.sort((a, b) => b.key - a.key) as a permutation of the
\* indices: descending, equal keys in their original order.
\* Mutant: an unstable sort, equal keys end up in reverse order.
RECURSIVE InsertIdx_Unstable(_, _, _)
InsertIdx_Unstable(s, x, keys) ==
  IF Len(s) = 0 THEN <<x>>
  ELSE IF keys[Head(s)] > keys[x] THEN <<Head(s)>> \o InsertIdx_Unstable(Tail(s), x, keys)
  ELSE <<x>> \o s

RECURSIVE InsertIdx(_, _, _)
InsertIdx(s, x, keys) ==
  IF Len(s) = 0 THEN <<x>>
  ELSE IF keys[Head(s)] >= keys[x] THEN <<Head(s)>> \o InsertIdx(Tail(s), x, keys)
  ELSE <<x>> \o s

RECURSIVE OrderFrom(_, _)
OrderFrom(keys, n) ==
  IF n = 0 THEN <<>> ELSE InsertIdx(OrderFrom(keys, n - 1), n, keys)

SortDesc(items, keys) ==
  LET order == OrderFrom(keys, Len(keys))
  IN [k \in 1..Len(items) |-> items[order[k]]]

\* Array.prototype.slice(0, n)
SliceTo(s, n) ==
  IF n >= 0 THEN SubSeq(s, 1, Min(n, Len(s))) ELSE SubSeq(s, 1, Max(Len(s) + n, 0))

\* Lines 326-344 for one document
DocHits(doc, qEmb, qNorm, perDocN) ==
  LET docResults == [k \in 1..Len(doc.chunks) |->
                       [id |-> <<doc.id, doc.chunks[k].id>>,
                        score |-> Similarity(qEmb, qNorm, doc.chunks[k]),
                        page |-> doc.chunks[k].page,
                        text |-> doc.chunks[k].text]]
      sorted == SortDesc(docResults, [k \in 1..Len(docResults) |-> docResults[k].score])
  IN SliceTo(sorted, perDocN)

\* Lines 325-355: one entry per document that has chunks, in Map order
RECURSIVE ResultsByDoc(_, _, _, _, _)
ResultsByDoc(ds, d, qEmb, qNorm, perDocN) ==
  IF d > Len(ds) THEN <<>>
  ELSE (IF Len(ds[d].chunks) > 0
        THEN <<[docId |-> ds[d].id, path |-> ds[d].id,
                hits |-> DocHits(ds[d], qEmb, qNorm, perDocN)]>>
        ELSE <<>>)
       \o ResultsByDoc(ds, d + 1, qEmb, qNorm, perDocN)

\* b.hits[0]?.score || 0
TopScore(entry) == IF Len(entry.hits) = 0 THEN 0 ELSE entry.hits[1].score

\* Lines 320-360
SearchResults(ds, qEmb, perDocN) ==
  LET qNorm == norm(qEmb)
      results == ResultsByDoc(ds, 1, qEmb, qNorm, perDocN)
  IN SortDesc(results, [k \in 1..Len(results) |-> TopScore(results[k])])

\* Line 315: the guard.
SearchGuard(ds) == IF Len(ds) = 0 THEN MsgNotReady ELSE "ok"

\* embedBatch, line 146: new URL('/v1/embeddings', host) throws a TypeError
\* unless host is an absolute URL, before any request is made.
ValidBase(host) == host \in AbsoluteUrls

\* Lines 315-319 up to the request: the guard, then embedBatch is called
\* with the host of the settings as they are now: what the handler throws
\* before it is suspended, or "ok".
SearchEntry(ds, st) ==
  IF SearchGuard(ds) # "ok" THEN SearchGuard(ds)
  ELSE IF ~ValidBase(st.embeddingHost) THEN MsgTypeError
  ELSE "ok"

\* A search invocation suspended in its query embedding request, with the
\* function of the window that called it ("" for a call from elsewhere).
Pending(query, perDocN, caller) ==
  [query |-> query, perDocN |-> perDocN, caller |-> caller]

\* s without its k-th element
Without(s, k) == SubSeq(s, 1, k - 1) \o SubSeq(s, k + 1, Len(s))

\* search is called: it throws at once, or is suspended in the request
\* while earlier calls may still be suspended in theirs.
Search ==
  /\ Len(search) < MaxSearches
  /\ \E query \in Queries, perDocN \in PerDocNs :
       IF SearchEntry(docs, settings) # "ok"
       THEN UNCHANGED search
       ELSE search' = Append(search, Pending(query, perDocN, ""))
  /\ UNCHANGED <<root, includeFiles, docs, settings, currentPreprocess, tokens,
                 runs, events, call, renderer>>

\* What the handler returns or throws when the query embedding settles.
SearchReturn(ds, query, perDocN, kind) ==
  LET embs == ResponseVectors(<<query>>, kind)
  IN CASE kind = "http" -> [kind |-> "error", results |-> <<>>, message |-> MsgAxiosError]
       [] kind = "nodata" -> [kind |-> "error", results |-> <<>>, message |-> MsgInvalidResponse]
       [] Len(embs) = 0 -> [kind |-> "error", results |-> <<>>, message |-> MsgTypeError]
       [] OTHER -> [kind |-> "results", results |-> SearchResults(ds, embs[1], perDocN),
                    message |-> ""]

\* The query embedding request of one of the suspended invocations settles
\* and the handler returns: nothing of the workspace is written.
SearchSettle ==
  /\ \E k \in 1..Len(search) : search' = Without(search, k)
  /\ UNCHANGED <<root, includeFiles, docs, settings, currentPreprocess, tokens,
                 runs, events, call, renderer>>

(***************************************************************************)
(* chunkPageText called on its own                                         *)
(*                                                                         *)
(* The arguments are drawn from texts of up to MaxTextLen characters       *)
(* (plain, whitespace-only, with leading whitespace, of characters next to *)
(* whitespace that trim() keeps) and from the integers                     *)
(* the settings form can send: the size below, at and above the floor of   *)
(* 200, the overlap negative, zero, below, at and above the cap.           *)
(***************************************************************************)
MaxTextLen == 450

Squares == {k * k : k \in 1..MaxTextLen}

\* the characters a whitespace-only text is made of, in turn
BlankChars == <<CR, LF, SP, TAB, 12, 11, 160, 5760, 8192, 8202, 8232, 8233,
                8239, 8287, 12288, 65279>>

\* characters next to those, which trim() keeps: U+0085, U+200B, U+180E,
\* U+00E9, U+D55C
KeptChars == <<133, 8203, 6158, 233, 54620>>

\* A text of n characters; no two windows of a plain text look alike.
TextOf(kind, n) ==
  CASE kind = "plain" -> [i \in 1..n |-> IF i \in Squares THEN 98 ELSE 97]
    [] kind = "blank" -> [i \in 1..n |-> BlankChars[((i - 1) % Len(BlankChars)) + 1]]
    [] kind = "lead" -> [i \in 1..n |-> IF i <= 2 THEN SP
                                        ELSE IF i \in Squares THEN 98 ELSE 97]
    [] kind = "kept" -> [i \in 1..n |-> KeptChars[((i - 1) % Len(KeptChars)) + 1]]

TextKinds == {"plain", "blank", "lead", "kept"}
ChunkLens == {n \in 0..MaxTextLen : n < 3 \/ n % 50 \in {0, 1, 49}}
ChunkSizeArgs == {-1, 0, 200, 201, 250}
OverlapArgs == {-5, 0, 50, 160, 161, 250}
PageArgs == {1, 3}

ChunkInit ==
  /\ WorkspaceInit
  /\ RendererInit
  /\ call \in {[pc |-> "args", text |-> TextOf(kind, n), page |-> page,
                 chunkSize |-> chunkSize, overlap |-> overlap, out |-> <<>>] :
                  kind \in TextKinds, n \in ChunkLens, page \in PageArgs,
                  chunkSize \in ChunkSizeArgs, overlap \in OverlapArgs}

ChunkCall ==
  /\ call.pc = "args"
  /\ call' = [call EXCEPT !.pc = "returned",
                 !.out = chunkPageText(call.text, call.page, call.chunkSize, call.overlap)]
  /\ UNCHANGED <<root, includeFiles, docs, settings, currentPreprocess, tokens,
                 runs, events, search, renderer>>

ChunkNext == ChunkCall

ChunkSpec == ChunkInit /\ [][ChunkNext]_vars

(***************************************************************************)
(* search called once, with any arguments                                  *)
(*                                                                         *)
(* The main process starts as loaded and handles the calls that fill and   *)
(* empty the collection; the include list names b.txt and e.pdf, whose     *)
(* four pages give the scores 1, 0.6, 1 and 0 against the query "x".  At   *)
(* any moment search is called once, with a query of norm 1, 5 or 0 and    *)
(* any perDocN the settings form can send.  The handler is suspended in    *)
(* the query embedding request (line 319) and the other handlers go on     *)
(* being called; the ranking reads the collection as it is when the        *)
(* request settles.  The behaviour is followed up to the return of the     *)
(* search, whose result call.out then keeps.                               *)
(***************************************************************************)
RankIncludeArgs == { <<"b.txt", "e.pdf">> }

\* "q" is a query the provider embeds as the zero vector
RankQueries == { <<LetterX>>, <<LetterZ>>, <<LetterQ>> }
PerDocNArgs == {-1, 0, 1, 2, 5}

RankSetIncludeFiles ==
  /\ \E files \in RankIncludeArgs : includeFiles' = files
  /\ UNCHANGED <<root, docs, settings, currentPreprocess, tokens, runs,
                 events, search, call, renderer>>

\* Lines 314-319: the guard on the collection as it is at the call and
\* the URL of the request; the handler throws, or is suspended in the query
\* embedding request.
RankCall ==
  /\ call.pc = "none"
  /\ \E query \in RankQueries, perDocN \in PerDocNArgs :
       call' = IF SearchEntry(docs, settings) # "ok"
               THEN [pc |-> "returned", query |-> query, perDocN |-> perDocN,
                     kind |-> "",
                     out |-> [kind |-> "error", results |-> <<>>,
                              message |-> SearchEntry(docs, settings)]]
               ELSE [pc |-> "await", query |-> query, perDocN |-> perDocN,
                     kind |-> "", out |-> <<>>]
  /\ UNCHANGED <<root, includeFiles, docs, settings, currentPreprocess, tokens,
                 runs, events, search, renderer>>

\* Lines 319-361: the request settles, kind is how the provider answered,
\* and the collection is ranked as it is by then.
RankSettle ==
  /\ call.pc = "await"
  /\ \E kind \in ProviderKinds :
       call' = [call EXCEPT !.pc = "returned", !.kind = kind,
                  !.out = SearchReturn(docs, call.query, call.perDocN, kind)]
  /\ UNCHANGED <<root, includeFiles, docs, settings, currentPreprocess, tokens,
                 runs, events, search, renderer>>

\* the search has not returned yet
Observed == call.pc # "returned"

\* The search, and the other handlers called before it and while it is
\* suspended.
RankNext ==
  \/ RankCall
  \/ RankSettle
  \/ Observed /\ SelectWorkspace
  \/ Observed /\ SetSettings
  \/ Observed /\ RankSetIncludeFiles
  \/ Observed /\ ResetWorkspace
  \/ Observed /\ Preprocess
  \/ Observed /\ \E r \in RunIds : ExtractSettle(r)
  \/ Observed /\ \E r \in RunIds : EmbedSettle(r)
  \/ Observed /\ \E r \in RunIds : EmbedAborted(r)
  \/ Observed /\ PreprocessCancel

RankSpec == Init /\ [][RankNext]_vars

(***************************************************************************)
(* The renderer: the exhaustive-search state of App (src/src/App.jsx)      *)
(*                                                                         *)
(* App keeps one state object per mode, multiDocState and singleDocState,  *)
(* and the mode displayed, documentMode.  The convenience setters and the  *)
(* event listeners are closures over documentMode; st below is the pair    *)
(* [multi, single] of the two state objects and dm the documentMode of the *)
(* closure.  Of each state object the query, the running flag, the         *)
(* progress and the three buckets are kept, and of singleDocState the      *)
(* selected document; status and the tab shown are left out.               *)
(*                                                                         *)
(* src/app/main.js registers no handler for `exhaustive-search` and        *)
(* `exhaustive-search-cancel`: with it every such request is rejected.     *)
(* The sweep of a main process that has the handlers follows the           *)
(* specification's section 4.5: one sweep per mode, a second start in an   *)
(* active mode is refused, a start event, one progress event per chunk     *)
(* with the cumulative count and the verdict, then one of complete,        *)
(* cancelled and error.  The two processes exchange messages in order:     *)
(* ui.toMain holds the requests the main process has not taken yet,        *)
(* ui.toWin the answers and events the window has not been handed yet.     *)
(* A request is made in one step of the renderer, taken by the main        *)
(* process in a later step, and its answer continues the renderer's        *)
(* function in a third.  A sweep has MaxSweepChunks chunks, those of       *)
(* d.pdf; ui.clicks counts the user's clicks and inputs, of which there    *)
(* are MaxClicks at most, and invokes.handlers says whether the main       *)
(* process has the two handlers.  invokes.dialogs holds the                *)
(* select-workspace calls suspended while their folder dialog is open.     *)
(***************************************************************************)
MaxSweepChunks == 2
\* the clicks the user makes
MaxClicks == 3

SweepTotals == [multi |-> MaxSweepChunks, single |-> MaxSweepChunks]
\* The verdict of the classifier for chunk k of mode m's sweep:
\* 1 relevant, 2 non-relevant, anything else uncertain.
Verdict(m, k) == IF m = "single" THEN 2 ELSE ((k + 1) % 3) + 1
\* the result for the k-th chunk, whose id is k - 1
SweepResult(k, c) ==
  [docId |-> "d.pdf", chunkId |-> k - 1, classification |-> c, reason |-> ""]
\* whether the classification call for chunk k of mode m's sweep fails: the
\* first call of the all-documents sweep may, the others succeed
CallOutcomes(m, k) == IF m = "multi" /\ k = 1 THEN BOOLEAN ELSE {FALSE}
\* The classification call for chunk k failed: reported as uncertain, with
\* the failure as the reason.
FailedResult(k) == [SweepResult(k, 3) EXCEPT !.reason = "classification failed"]

AppState == [multi |-> multiDocState, single |-> singleDocState]
ModeState(m) == AppState[m]
SetAppState(st) ==
  /\ multiDocState' = st.multi
  /\ singleDocState' = st.single

setExhaustiveSearchRunning(st, dm, value) ==
  IF dm = "multi"
  THEN [st EXCEPT !.multi.exhaustiveSearchRunning = value]
  ELSE [st EXCEPT !.single.exhaustiveSearchRunning = value]

setExhaustiveSearchProgress(st, dm, value) ==
  IF dm = "multi"
  THEN [st EXCEPT !.multi.exhaustiveSearchProgress = value]
  ELSE [st EXCEPT !.single.exhaustiveSearchProgress = value]

\* value is the value passed, or what the callback passed makes of
\* st[dm].exhaustiveSearchResults
setExhaustiveSearchResults(st, dm, value) ==
  IF dm = "multi"
  THEN [st EXCEPT !.multi.exhaustiveSearchResults = value]
  ELSE [st EXCEPT !.single.exhaustiveSearchResults = value]

\* the callback of the progress listener
AddResult(prev, result) ==
  IF result.classification = 1
  THEN [prev EXCEPT !.relevant = Append(prev.relevant, result)]
  ELSE IF result.classification = 2
       THEN [prev EXCEPT !.nonRelevant = Append(prev.nonRelevant, result)]
       ELSE [prev EXCEPT !.uncertain = Append(prev.uncertain, result)]

onExhaustiveSearchStart(st, dm, data) ==
  IF data.mode = dm
  THEN setExhaustiveSearchProgress(st, dm,
         <<[current |-> 0, total |-> data.total, docPath |-> ""]>>)
  ELSE st

onExhaustiveSearchProgress(st, dm, data) ==
  IF data.mode = dm
  THEN setExhaustiveSearchResults(
         setExhaustiveSearchProgress(st, dm,
           <<[current |-> data.current, total |-> data.total,
              docPath |-> data.docPath]>>),
         dm, AddResult(st[dm].exhaustiveSearchResults, data.result))
  ELSE st

onExhaustiveSearchComplete(st, dm, data) ==
  IF data.mode = dm
  THEN setExhaustiveSearchProgress(setExhaustiveSearchRunning(st, dm, FALSE),
                                   dm, NoProgress)
  ELSE st

onExhaustiveSearchCancelled(st, dm, data) ==
  IF data.mode = dm
  THEN setExhaustiveSearchProgress(setExhaustiveSearchRunning(st, dm, FALSE),
                                   dm, NoProgress)
  ELSE st

onExhaustiveSearchError(st, dm, data) ==
  IF data.mode = dm
  THEN setExhaustiveSearchProgress(setExhaustiveSearchRunning(st, dm, FALSE),
                                   dm, NoProgress)
  ELSE st

\* A request on its way to the main process, and what the main process
\* sends to the window: the answer to a request (resolved or rejected, with
\* the request it answers) or an event with its payload.
Request(name, m) == [name |-> name, mode |-> m]
Answer(kind, req) ==
  [name |-> kind, of |-> req.name, caller |-> "",
   data |-> [of |-> req.name, mode |-> req.mode]]
Event(name, data) == [name |-> name, of |-> "", caller |-> "", data |-> data]
\* An effect that is due runs before the window handles anything else: a
\* click, an answer or an event.
EffectsFlushed == ~ui.effect.pending
\* a click of the user, and one that makes a request
Click == ui.clicks < MaxClicks /\ EffectsFlushed
Clicked == ui' = [ui EXCEPT !.clicks = @ + 1]
SendToMain(req) ==
  ui' = [ui EXCEPT !.toMain = Append(@, req), !.clicks = @ + 1]
SendToWin(msg) == ui' = [ui EXCEPT !.toWin = Append(@, msg)]
\* the main process takes the oldest request, which is name
Takes(name) == ui.toMain # <<>> /\ Head(ui.toMain).name = name
\* the window is handed the oldest message: the answer kind to a request
\* made on channel of
Receives(kind, of) ==
  /\ EffectsFlushed
  /\ ui.toWin # <<>>
  /\ Head(ui.toWin).name = kind
  /\ Head(ui.toWin).of = of
Received == ui' = [ui EXCEPT !.toWin = Tail(@)]
\* what canSearch() tests (lines 2115-2126) besides processed and
\* processing: a query that is not blank, and files in the all-documents
\* mode or a selected document in the single-document mode
canSearch ==
  /\ ui.processed /\ ~ui.processing
  /\ ~TrimIsEmpty(ModeState(documentMode).query)
  /\ IF documentMode = "multi" THEN Len(ui.files) > 0
     ELSE singleDocState.selectedDocument # ""
SweepActive(m) == sweeps[m].pc \in {"accepted", "running"}

\* the mode switch of the sidebar, which a window with a workspace shows
\* (line 2328)
OnDocumentModeChange ==
  /\ Click
  /\ ui.workspace
  /\ \E newMode \in Modes : documentMode' = newMode
  /\ Clicked
  /\ UNCHANGED <<multiDocState, singleDocState, sweeps>>
  /\ UNCHANGED <<mainVars, invokes>>

\* the query box (lines 2375-2382), disabled until the workspace is
\* preprocessed: setQuery of the displayed mode
QueryArgs == { <<>>, <<LetterZ>> }
SetQuery ==
  /\ Click
  /\ ui.workspace
  /\ ui.processed /\ ~ui.processing
  /\ \E value \in QueryArgs :
       /\ value # ModeState(documentMode).query
       /\ IF documentMode = "multi"
          THEN /\ multiDocState' = [multiDocState EXCEPT !.query = value]
               /\ UNCHANGED singleDocState
          ELSE /\ singleDocState' = [singleDocState EXCEPT !.query = value]
               /\ UNCHANGED multiDocState
  /\ Clicked
  /\ UNCHANGED <<documentMode, sweeps>>
  /\ UNCHANGED <<mainVars, invokes>>

\* a document of the sidebar is clicked: the item calls onDocumentSelect
\* in the single-document mode only (lines 617-621, 2360-2362)
OnDocumentSelect ==
  /\ Click
  /\ ui.workspace
  /\ documentMode = "single"
  /\ \E k \in 1..Len(ui.files) :
       /\ ui.files[k] # singleDocState.selectedDocument
       /\ singleDocState' = [singleDocState EXCEPT !.selectedDocument = ui.files[k]]
  /\ Clicked
  /\ UNCHANGED <<documentMode, multiDocState, sweeps>>
  /\ UNCHANGED <<mainVars, invokes>>

\* The guards of handleExhaustiveSearch, lines 2055-2084, in their order:
\* the first that makes the function return after a status message.
ExhaustiveSearchGuard ==
  CASE ~ui.processed \/ ui.processing -> "preprocess"
    [] ~ui.llm -> "llm"
    [] ModeState(documentMode).exhaustiveSearchRunning -> "running"
    [] ModeState(documentMode).query = <<>> -> "query"
    [] documentMode = "single" /\ singleDocState.selectedDocument = "" -> "document"
    [] OTHER -> "ok"

\* canExhaustiveSearch(), lines 2128-2130
canExhaustiveSearch ==
  canSearch /\ ui.llm /\ ~ModeState(documentMode).exhaustiveSearchRunning

\* handleExhaustiveSearch up to its await (lines 2054-2098), called by the
\* Exhaustive Search button (2391-2395), which is enabled while
\* canExhaustiveSearch() holds: the function returns after a status
\* message at a guard, else the flag is set, the buckets are emptied and
\* the request is sent with the displayed mode.
HandleExhaustiveSearch ==
  /\ Click
  /\ ui.workspace
  /\ canExhaustiveSearch
  /\ IF ExhaustiveSearchGuard # "ok"
     THEN UNCHANGED <<multiDocState, singleDocState, ui>>
     ELSE /\ SetAppState(
               setExhaustiveSearchResults(
                 setExhaustiveSearchRunning(AppState, documentMode, TRUE),
                 documentMode, EmptyResults))
          /\ SendToMain(Request("exhaustive-search", documentMode))
  /\ UNCHANGED <<documentMode, sweeps>>
  /\ UNCHANGED <<mainVars, invokes>>

\* The main process takes a start request.  Without a handler for the
\* channel (src/app/main.js) the request is rejected; a handler refuses it
\* while the mode's sweep is active, else the sweep begins.  The answer to
\* an accepted request continues nothing (line 2098 is the last of the
\* try) and is left out.
SweepRequest ==
  /\ Takes("exhaustive-search")
  /\ LET req == Head(ui.toMain)
     IN IF ~invokes.handlers \/ SweepActive(req.mode)
        THEN /\ ui' = [ui EXCEPT
                              !.toMain = Tail(@),
                              !.toWin = Append(@, Answer("rejected", req))]
             /\ UNCHANGED sweeps
        ELSE /\ sweeps' = [sweeps EXCEPT ![req.mode] =
                             [pc |-> "accepted", current |-> 0,
                              total |-> SweepTotals[req.mode],
                              cancel |-> FALSE, failed |-> FALSE]]
             /\ ui' = [ui EXCEPT !.toMain = Tail(@)]
  /\ UNCHANGED <<documentMode, multiDocState, singleDocState>>
  /\ UNCHANGED <<mainVars, invokes>>

\* the catch of handleExhaustiveSearch (lines 2099-2102), with the setter of
\* the call's mode
HandleExhaustiveSearchCatch ==
  /\ Receives("rejected", "exhaustive-search")
  /\ SetAppState(setExhaustiveSearchRunning(AppState, Head(ui.toWin).data.mode, FALSE))
  /\ Received
  /\ UNCHANGED <<documentMode, sweeps>>
  /\ UNCHANGED <<mainVars, invokes>>

\* cancelExhaustiveSearch up to its await (lines 2105-2107); the button is
\* shown while the displayed mode's flag is set.
CancelExhaustiveSearch ==
  /\ Click
  /\ ui.workspace
  /\ ModeState(documentMode).exhaustiveSearchRunning
  /\ SendToMain(Request("exhaustive-search-cancel", documentMode))
  /\ UNCHANGED <<documentMode, multiDocState, singleDocState, sweeps>>
  /\ UNCHANGED <<mainVars, invokes>>

\* The main process takes a cancel request: it flags the mode's sweep, if
\* one is active, and answers; or the request is rejected (no handler
\* answers the channel, or the handler throws) and no sweep is touched.
SweepCancelRequest ==
  /\ Takes("exhaustive-search-cancel")
  /\ LET req == Head(ui.toMain)
     IN \E answered \in (IF invokes.handlers THEN BOOLEAN ELSE {FALSE}) :
          /\ ui' = [ui EXCEPT
                           !.toMain = Tail(@),
                           !.toWin = Append(@, Answer(IF answered THEN "resolved"
                                                      ELSE "rejected", req))]
          /\ sweeps' = IF answered /\ SweepActive(req.mode)
                       THEN [sweeps EXCEPT ![req.mode].cancel = TRUE]
                       ELSE sweeps
  /\ UNCHANGED <<documentMode, multiDocState, singleDocState>>
  /\ UNCHANGED <<mainVars, invokes>>

\* cancelExhaustiveSearch after its await (lines 2108-2109), with the setter
\* of the call's mode
CancelExhaustiveSearchResume ==
  /\ Receives("resolved", "exhaustive-search-cancel")
  /\ SetAppState(setExhaustiveSearchRunning(AppState, Head(ui.toWin).data.mode, FALSE))
  /\ Received
  /\ UNCHANGED <<documentMode, sweeps>>
  /\ UNCHANGED <<mainVars, invokes>>

\* the catch of cancelExhaustiveSearch (lines 2110-2112): the rejection is
\* logged, the flag stays as it is
CancelExhaustiveSearchCatch ==
  /\ Receives("rejected", "exhaustive-search-cancel")
  /\ Received
  /\ UNCHANGED <<documentMode, multiDocState, singleDocState, sweeps>>
  /\ UNCHANGED <<mainVars, invokes>>

\* The window is handed an event of the sweep: the listener registered for
\* the mode displayed now handles it (lines 2259-2318).
ExhaustiveSearchEvents ==
  {"exhaustive-search-start", "exhaustive-search-progress",
   "exhaustive-search-complete", "exhaustive-search-cancelled",
   "exhaustive-search-error"}

Listener(st, dm, msg) ==
  CASE msg.name = "exhaustive-search-start" -> onExhaustiveSearchStart(st, dm, msg.data)
    [] msg.name = "exhaustive-search-progress" -> onExhaustiveSearchProgress(st, dm, msg.data)
    [] msg.name = "exhaustive-search-complete" -> onExhaustiveSearchComplete(st, dm, msg.data)
    [] msg.name = "exhaustive-search-cancelled" -> onExhaustiveSearchCancelled(st, dm, msg.data)
    [] OTHER -> onExhaustiveSearchError(st, dm, msg.data)

OnExhaustiveSearchEvent ==
  /\ EffectsFlushed
  /\ ui.toWin # <<>>
  /\ Head(ui.toWin).name \in ExhaustiveSearchEvents
  /\ SetAppState(Listener(AppState, documentMode, Head(ui.toWin)))
  /\ Received
  /\ UNCHANGED <<documentMode, sweeps>>
  /\ UNCHANGED <<mainVars, invokes>>

\* The sweep of mode m sends its start event.
SweepStart(m) ==
  /\ sweeps[m].pc = "accepted"
  /\ sweeps' = [sweeps EXCEPT ![m].pc = "running"]
  /\ SendToWin(Event("exhaustive-search-start", [mode |-> m, total |-> sweeps[m].total]))
  /\ UNCHANGED <<documentMode, multiDocState, singleDocState>>
  /\ UNCHANGED <<mainVars, invokes>>

\* Mutant: a failed classification call ends the sweep with the error event.
SweepProgress_FailureAborts(m) ==
  /\ sweeps[m].pc = "running"
  /\ ~sweeps[m].cancel
  /\ sweeps[m].current < sweeps[m].total
  /\ \E callFailed \in CallOutcomes(m, sweeps[m].current + 1) :
       LET k == sweeps[m].current + 1
       IN IF callFailed
          THEN /\ sweeps' = [sweeps EXCEPT ![m] = [SweepIdle EXCEPT !.failed = TRUE]]
               /\ SendToWin(Event("exhaustive-search-error",
                                  [mode |-> m, message |-> "failed"]))
          ELSE /\ sweeps' = [sweeps EXCEPT ![m].current = k]
               /\ SendToWin(Event("exhaustive-search-progress",
                                  [mode |-> m, current |-> k,
                                   total |-> sweeps[m].total, docPath |-> "d.pdf",
                                   result |-> SweepResult(k, Verdict(m, k))]))
  /\ UNCHANGED <<documentMode, multiDocState, singleDocState>>
  /\ UNCHANGED <<mainVars, invokes>>

\* The sweep classifies its next chunk and sends the progress event; a
\* classification call that fails is reported as a result like any other.
SweepProgress(m) ==
  /\ sweeps[m].pc = "running"
  /\ ~sweeps[m].cancel
  /\ sweeps[m].current < sweeps[m].total
  /\ \E callFailed \in CallOutcomes(m, sweeps[m].current + 1) :
       LET k == sweeps[m].current + 1
       IN /\ sweeps' = [sweeps EXCEPT ![m].current = k,
                                      ![m].failed = @ \/ callFailed]
          /\ SendToWin(Event("exhaustive-search-progress",
                             [mode |-> m, current |-> k,
                              total |-> sweeps[m].total, docPath |-> "d.pdf",
                              result |-> IF callFailed THEN FailedResult(k)
                                         ELSE SweepResult(k, Verdict(m, k))]))
  /\ UNCHANGED <<documentMode, multiDocState, singleDocState>>
  /\ UNCHANGED <<mainVars, invokes>>

\* The sweep has classified every chunk and sends the complete event.
SweepComplete(m) ==
  /\ sweeps[m].pc = "running"
  /\ sweeps[m].current = sweeps[m].total
  /\ sweeps' = [sweeps EXCEPT ![m] = SweepIdle]
  /\ SendToWin(Event("exhaustive-search-complete",
                     [mode |-> m, total |-> sweeps[m].total]))
  /\ UNCHANGED <<documentMode, multiDocState, singleDocState>>
  /\ UNCHANGED <<mainVars, invokes>>

\* The sweep notices the cancel flag and sends the cancelled event.
SweepCancelled(m) ==
  /\ SweepActive(m)
  /\ sweeps[m].cancel
  /\ sweeps' = [sweeps EXCEPT ![m] = SweepCancelledIdle]
  /\ SendToWin(Event("exhaustive-search-cancelled",
                     [mode |-> m, total |-> sweeps[m].total,
                      current |-> sweeps[m].current]))
  /\ UNCHANGED <<documentMode, multiDocState, singleDocState>>
  /\ UNCHANGED <<mainVars, invokes>>

\* A failure that prevents any further call ends the sweep with the error event.
SweepError(m) ==
  /\ sweeps[m].pc = "running"
  /\ sweeps' = [sweeps EXCEPT ![m] = SweepIdle]
  /\ SendToWin(Event("exhaustive-search-error", [mode |-> m, message |-> "failed"]))
  /\ UNCHANGED <<documentMode, multiDocState, singleDocState>>
  /\ UNCHANGED <<mainVars, invokes>>

\* `${r.docId}::${r.chunkId}`
ResultId(r) == r.docId \o "::" \o ToString(r.chunkId)

\* the updater classifyExhaustiveResult passes to setExhaustiveSearchResults
ClassifyUpdater(prev, resultId, newClassification) ==
  LET allResults == prev.relevant \o prev.nonRelevant \o prev.uncertain
      found == {k \in 1..Len(allResults) : ResultId(allResults[k]) = resultId}
      Others(b) == SelectSeq(b, LAMBDA r : ResultId(r) # resultId)
      newResults == [relevant |-> Others(prev.relevant),
                     nonRelevant |-> Others(prev.nonRelevant),
                     uncertain |-> Others(prev.uncertain)]
  IN IF found = {}
     THEN prev
     ELSE LET k == CHOOSE j \in found : \A j2 \in found : j <= j2
              result == [allResults[k] EXCEPT !.classification = newClassification]
          IN IF newClassification = 1
             THEN [newResults EXCEPT !.relevant = Append(@, result)]
             ELSE IF newClassification = 2
                  THEN [newResults EXCEPT !.nonRelevant = Append(@, result)]
                  ELSE newResults

\* A click on Relevant (1) or Non-relevant (2) of a result shown in the
\* uncertain tab of the displayed mode (lines 2700-2714).
ClassifyExhaustiveResult ==
  /\ Click
  /\ ui.workspace
  /\ \E k \in 1..Len(ModeState(documentMode).exhaustiveSearchResults.uncertain),
        newClassification \in {1, 2} :
       LET hit == ModeState(documentMode).exhaustiveSearchResults.uncertain[k]
       IN SetAppState(
            setExhaustiveSearchResults(AppState, documentMode,
              ClassifyUpdater(ModeState(documentMode).exhaustiveSearchResults,
                              ResultId(hit), newClassification)))
  /\ Clicked
  /\ UNCHANGED <<documentMode, sweeps>>
  /\ UNCHANGED <<mainVars, invokes>>

(***************************************************************************)
(* classifyExhaustiveResult called on its own                              *)
(*                                                                         *)
(* The buckets are drawn from the contents sweeps can leave: up to         *)
(* MaxResults results, each in the bucket of its classification, in the    *)
(* order of arrival.  Two of them can have the same id: a sweep restarted  *)
(* while events of the one before are still under way files a chunk a      *)
(* second time.  The id is one of theirs or an unknown one; the target is  *)
(* the one of the two buttons, 1 or 2.                                     *)
(***************************************************************************)
MaxResults == 3

\* the results with chunk ids ids[1..n] and classifications cs[1..n], put
\* in their buckets one after the other
RECURSIVE Filed(_, _, _)
Filed(ids, cs, n) ==
  IF n = 0 THEN EmptyResults
  ELSE AddResult(Filed(ids, cs, n - 1), SweepResult(ids[n], cs[n]))

BucketArgs ==
  UNION {{Filed(ids, cs, n) : ids \in [1..n -> 1..MaxResults],
                              cs \in [1..n -> {1, 2, 3}]} : n \in 0..MaxResults}
ResultIdArgs == {ResultId(SweepResult(k, 3)) : k \in 1..MaxResults} \cup {"b.txt::1"}
TargetArgs == {1, 2}

ClassifyInit ==
  /\ WorkspaceInit
  /\ RendererInit
  /\ call \in {[pc |-> "args", prev |-> prev, resultId |-> resultId,
                 newClassification |-> c, out |-> EmptyResults] :
                  prev \in BucketArgs, resultId \in ResultIdArgs, c \in TargetArgs}

ClassifyCall ==
  /\ call.pc = "args"
  /\ call' = [call EXCEPT !.pc = "done",
                !.out = ClassifyUpdater(call.prev, call.resultId, call.newClassification)]
  /\ UNCHANGED <<root, includeFiles, docs, settings, currentPreprocess, tokens,
                 runs, events, search, renderer>>

ClassifyNext == ClassifyCall

ClassifySpec == ClassifyInit /\ [][ClassifyNext]_vars

(***************************************************************************)
(* The renderer: the preprocessing state of App (src/src/App.jsx)          *)
(*                                                                         *)
(* App keeps workspace, processing and processed, which decide whether the *)
(* welcome screen or the main view is shown, whether the Generate          *)
(* Embeddings button or the Cancel button is shown and whether search is   *)
(* allowed.  Window and main process exchange messages in order: ui.toMain *)
(* holds the requests the main process has not taken yet, ui.toWin the     *)
(* answers and the terminal events of runs the window has not been handed  *)
(* yet.  A function of the window runs up to its request in one step and   *)
(* goes on, when it is handed the answer, in another.  Progress events,    *)
(* which set progressData only, and the answer to preprocess-cancel, which *)
(* nothing waits for, are left out.  State updates made in one stretch are *)
(* applied together (automatic batching).  ui.clicks counts the user's     *)
(* clicks, of which there are MaxClicks at most.                           *)
(***************************************************************************)

\* Folders the dialog of select-workspace may return, as walkDir lists
\* them: with a blank PDF, with a PDF of two pages, without any PDF.
UiFolders == {FolderEntries, <<"d.pdf", "b.txt">>, <<"c.doc">>}

\* Settings objects the settings dialog hands to saveSettings; llm is
\* whether llmHost and llmModel are both filled in.
UiSettingsArgs ==
  { [embeddingHost |-> "http://h", embeddingModel |-> "m", apiKey |-> "",
     chunkSize |-> 1200, chunkOverlap |-> 200, llm |-> FALSE],
    [embeddingHost |-> "http://g", embeddingModel |-> "m", apiKey |-> "",
     chunkSize |-> 1200, chunkOverlap |-> 200, llm |-> TRUE] }

\* What localStorage holds when App is mounted: nothing, settings saved in
\* an earlier session, or settings saved with the LLM fields only.
UiStoredArgs ==
  { NoStored,
    [present |-> TRUE,
     settings |-> [embeddingHost |-> "http://h", embeddingModel |-> "m", apiKey |-> "",
                   chunkSize |-> 1200, chunkOverlap |-> 200, llm |-> TRUE]],
    [present |-> TRUE,
     settings |-> [embeddingHost |-> "", embeddingModel |-> "", apiKey |-> "",
                   chunkSize |-> 1200, chunkOverlap |-> 200, llm |-> TRUE]] }

\* settings.perDocN as App is mounted (line 1817)
DefaultPerDocN == 3
\* the query of the search initializeSettings makes, 'test' (line 2217)
TestQuery == <<116, 101, 115, 116>>

\* A request with the function that makes it, its arguments and what the
\* function remembers (hostChanged of saveSettings, files.length > 0 of
\* initializeSettings); the answer to a request (resolved or rejected) with
\* its value; an event.
UiRequest(name, caller, s, hostChanged, hasFiles) ==
  [name |-> name, caller |-> caller, settings |-> s, hostChanged |-> hostChanged,
   hasFiles |-> hasFiles]
UiAnswer(kind, req, isNull, files) ==
  [name |-> kind, of |-> req.name, caller |-> req.caller, isNull |-> isNull,
   files |-> files, hostChanged |-> req.hostChanged, hasFiles |-> req.hasFiles]
\* a search request: window.api.search({ query, perDocN }) of lines 2217
\* and 2042-2046; initializeSettings makes it in a render with files
SearchRequest(caller, query, perDocN) ==
  [name |-> "search", caller |-> caller, settings |-> NoSettings,
   hostChanged |-> FALSE, hasFiles |-> caller = "initializeSettings",
   query |-> query, perDocN |-> perDocN]
UiEvent(name) ==
  [name |-> name, of |-> "", caller |-> "", isNull |-> TRUE, files |-> <<>>,
   hostChanged |-> FALSE, hasFiles |-> FALSE]

\* the window is handed the oldest message: the answer kind to the request
\* of that caller made
UiReceives(kind, of, caller) ==
  /\ Receives(kind, of)
  /\ Head(ui.toWin).caller = caller

\* the listeners of lines 2239-2258
onPreprocessComplete(u) == [u EXCEPT !.processing = FALSE, !.processed = TRUE]
onPreprocessCancelled(u) == [u EXCEPT !.processing = FALSE, !.processed = FALSE]
onPreprocessError(u) == [u EXCEPT !.processing = FALSE, !.processed = FALSE]

PreprocessRequest == UiRequest("preprocess", "preprocess", NoSettings, FALSE, FALSE)

\* preprocess(), lines 2005-2010: up to the request
preprocessStart(u) ==
  [u EXCEPT !.processing = TRUE, !.processed = FALSE,
            !.toMain = Append(@, PreprocessRequest)]

\* preprocess(), lines 2011-2012: the request resolved
preprocessResolved(u) == [u EXCEPT !.processing = FALSE, !.processed = TRUE]

\* preprocess(), line 2016: the request was rejected
preprocessCatch(u) == [u EXCEPT !.processing = FALSE]

\* What the main process sends when a stretch of run r is over: nothing
\* while the run goes on; at its end the terminal event (lines 288, 294,
\* 297) and then the answer to the preprocess request, the summary or the
\* rejection (lines 289, 295, 298).
RunMessages(r) ==
  IF runs'[r].pc # "done" THEN <<>>
  ELSE CASE runs'[r].result = "complete" ->
              <<UiEvent("preprocess-complete"),
                UiAnswer("resolved", PreprocessRequest, FALSE, <<>>)>>
         [] runs'[r].result = "cancelled" ->
              <<UiEvent("preprocess-cancelled"),
                UiAnswer("rejected", PreprocessRequest, TRUE, <<>>)>>
         [] OTHER ->
              <<UiEvent("preprocess-error"),
                UiAnswer("rejected", PreprocessRequest, TRUE, <<>>)>>

\* selectWorkspace, lines 1958-1961: the welcome screen's button
UiSelectWorkspace ==
  /\ Click
  /\ ~ui.workspace
  /\ ui' = [ui EXCEPT !.toMain = Append(@, UiRequest("select-workspace", "selectWorkspace",
                                                     NoSettings, FALSE, FALSE)),
                      !.clicks = @ + 1]
  /\ UNCHANGED <<mainVars, sweepVars>>

\* select-workspace in the main process, main.js 173-174: the request is
\* taken and the handler is suspended in dialog.showOpenDialog; while the
\* dialog is open the main process takes the requests that follow.
UiMainSelectWorkspace ==
  /\ Takes("select-workspace")
  /\ ui' = [ui EXCEPT !.toMain = Tail(@)]
  /\ invokes' = [invokes EXCEPT !.dialogs = Append(@, Head(ui.toMain))]
  /\ UNCHANGED <<mainVars, documentMode, multiDocState, singleDocState, sweeps>>

\* main.js 174-181: the dialog of one of the suspended calls returns,
\* cancelled or with a folder; the handler sets root and the include list
\* and its answer is sent.
UiMainSelectWorkspaceSettle ==
  /\ \E k \in 1..Len(invokes.dialogs), canceled \in BOOLEAN, folder \in UiFolders :
       LET pdfs == SelectSeq(SelectSeq(folder, WalkKeeps), IsPdf)
           req == invokes.dialogs[k]
       IN /\ invokes' = [invokes EXCEPT !.dialogs = Without(@, k)]
          /\ IF canceled
             THEN /\ UNCHANGED <<root, includeFiles>>
                  /\ SendToWin(UiAnswer("resolved", req, TRUE, <<>>))
             ELSE /\ root' = "ws"
                  /\ includeFiles' = pdfs
                  /\ SendToWin(UiAnswer("resolved", req, FALSE, pdfs))
  /\ UNCHANGED <<docs, settings, currentPreprocess, tokens, runs, events,
                 search, call, documentMode, multiDocState, singleDocState,
                 sweeps>>

\* selectWorkspace, lines 1962-1968 and the catch of 1972-1974: nothing
\* for no folder; else workspace and files are set and line 1968 throws
\* (setIncluded is defined nowhere), so no set-include-files request is
\* made and line 1970 is not reached.  The updates of 1966-1967 are applied
\* together; the render that follows has a new workspace (the folders are
\* told apart by their files) and its effect initializeSettings is due.
UiSelectWorkspaceResume ==
  /\ UiReceives("resolved", "select-workspace", "selectWorkspace")
  /\ LET answer == Head(ui.toWin)
     IN ui' = IF answer.isNull
              THEN [ui EXCEPT !.toWin = Tail(@)]
              ELSE [ui EXCEPT !.toWin = Tail(@),
                              !.workspace = TRUE,
                              !.files = answer.files,
                              !.effect = IF ui.workspace /\ ui.files = answer.files
                                         THEN @
                                         ELSE [pending |-> TRUE,
                                               hasFiles |-> Len(answer.files) > 0]]
  /\ UNCHANGED <<mainVars, sweepVars>>

\* The effect of lines 2188-2233 for a render with a workspace, up to its
\* first request: nothing without the item in localStorage; else the saved
\* settings become the settings state and, if they hold an embedding host
\* and model, are sent to the main process.
UiInitializeSettings ==
  /\ ui.effect.pending
  /\ LET parsed == ui.stored.settings
         u == [ui EXCEPT !.effect = NoEffect]
     IN ui' = IF ~ui.stored.present THEN u
              ELSE IF parsed.embeddingHost # "" /\ parsed.embeddingModel # ""
              THEN [u EXCEPT !.embeddingHost = parsed.embeddingHost,
                             !.embeddingModel = parsed.embeddingModel,
                             !.llm = parsed.llm,
                             !.toMain = Append(@, UiRequest("set-settings",
                                                    "initializeSettings", parsed, FALSE,
                                                    ui.effect.hasFiles))]
              ELSE [u EXCEPT !.embeddingHost = parsed.embeddingHost,
                             !.embeddingModel = parsed.embeddingModel,
                             !.llm = parsed.llm]
  /\ UNCHANGED <<mainVars, sweepVars>>

\* initializeSettings, lines 2209-2217: the settings were taken; with a
\* workspace that has files the search for 'test' is made
UiInitializeSettingsResume ==
  /\ UiReceives("resolved", "set-settings", "initializeSettings")
  /\ ui' = IF Head(ui.toWin).hasFiles
           THEN [ui EXCEPT !.toWin = Tail(@),
                           !.toMain = Append(@, SearchRequest("initializeSettings",
                                                              TestQuery, 1))]
           ELSE [ui EXCEPT !.toWin = Tail(@)]
  /\ UNCHANGED <<mainVars, sweepVars>>

\* search in the main process, main.js 314-319: rejected while the
\* collection is empty or when the URL of the request cannot be made, else
\* suspended in the query embedding request, whatever other calls of search
\* are suspended
UiMainSearch ==
  /\ Takes("search")
  /\ LET req == Head(ui.toMain)
     IN IF SearchEntry(docs, settings) # "ok"
        THEN /\ ui' = [ui EXCEPT !.toMain = Tail(@),
                         !.toWin = Append(@, UiAnswer("rejected", req, TRUE, <<>>))]
             /\ UNCHANGED search
        ELSE /\ search' = Append(search, Pending(req.query, req.perDocN, req.caller))
             /\ ui' = [ui EXCEPT !.toMain = Tail(@)]
  /\ UNCHANGED <<root, includeFiles, docs, settings, currentPreprocess, tokens,
                 runs, events, call, sweepVars>>

\* search in the main process, main.js 319-361: the query embedding
\* request of one of the suspended calls settles and the handler returns
\* the results or throws
UiMainSearchSettle ==
  /\ \E k \in 1..Len(search), kind \in ProviderKinds :
       LET ret == SearchReturn(docs, search[k].query, search[k].perDocN, kind)
           req == SearchRequest(search[k].caller, search[k].query, search[k].perDocN)
       IN /\ ui' = [ui EXCEPT !.toWin =
                      Append(@, UiAnswer(IF ret.kind = "results" THEN "resolved"
                                         ELSE "rejected", req, FALSE, <<>>))]
          /\ search' = Without(search, k)
  /\ UNCHANGED <<root, includeFiles, docs, settings, currentPreprocess, tokens,
                 runs, events, call, sweepVars>>

\* initializeSettings, line 2218: the search returned
UiInitializeSettingsSearched ==
  /\ UiReceives("resolved", "search", "initializeSettings")
  /\ ui' = [ui EXCEPT !.toWin = Tail(@), !.processed = TRUE]
  /\ UNCHANGED <<mainVars, sweepVars>>

\* initializeSettings, lines 2219-2221: the search threw
UiInitializeSettingsCatch ==
  /\ UiReceives("rejected", "search", "initializeSettings")
  /\ ui' = [ui EXCEPT !.toWin = Tail(@), !.processed = FALSE]
  /\ UNCHANGED <<mainVars, sweepVars>>

\* runSearch, lines 2022-2046: the Search button and the Enter key of the
\* query box call it when canSearch() holds; up to the search request.
\* The status line and the results it shows are left out.
RunSearch ==
  /\ Click
  /\ ui.workspace
  /\ canSearch
  /\ ui' = [ui EXCEPT !.toMain = Append(@, SearchRequest("runSearch",
                                             ModeState(documentMode).query,
                                             DefaultPerDocN)),
                      !.clicks = @ + 1]
  /\ UNCHANGED <<mainVars, sweepVars>>

\* runSearch, lines 2047-2048: the search returned
RunSearchResume ==
  /\ UiReceives("resolved", "search", "runSearch")
  /\ ui' = [ui EXCEPT !.toWin = Tail(@)]
  /\ UNCHANGED <<mainVars, sweepVars>>

\* runSearch, lines 2049-2051: the search threw
RunSearchCatch ==
  /\ UiReceives("rejected", "search", "runSearch")
  /\ ui' = [ui EXCEPT !.toWin = Tail(@)]
  /\ UNCHANGED <<mainVars, sweepVars>>

\* saveSettings, lines 1977-1994: the settings state and the item of
\* localStorage are written, up to the set-settings request
UiSaveSettings ==
  /\ Click
  /\ ui.workspace
  /\ \E newSettings \in UiSettingsArgs :
       LET hostChanged == \/ ui.embeddingHost # newSettings.embeddingHost
                          \/ ui.embeddingModel # newSettings.embeddingModel
       IN ui' = [ui EXCEPT !.embeddingHost = newSettings.embeddingHost,
                           !.embeddingModel = newSettings.embeddingModel,
                           !.llm = newSettings.llm,
                           !.stored = [present |-> TRUE, settings |-> newSettings],
                           !.toMain = Append(@, UiRequest("set-settings", "saveSettings",
                                                          newSettings, hostChanged, FALSE)),
                           !.clicks = @ + 1]
  /\ UNCHANGED <<mainVars, sweepVars>>

\* set-settings in the main process, main.js 184-187
UiMainSetSettings ==
  /\ Takes("set-settings")
  /\ settings' = MergeSettings(settings, Head(ui.toMain).settings)
  /\ ui' = [ui EXCEPT !.toMain = Tail(@),
              !.toWin = Append(@, UiAnswer("resolved", Head(ui.toMain), FALSE, <<>>))]
  /\ UNCHANGED <<root, includeFiles, docs, currentPreprocess, tokens, runs,
                 events, search, call, sweepVars>>

\* saveSettings, lines 1996-1999: host or model changed
UiSaveSettingsResume ==
  /\ UiReceives("resolved", "set-settings", "saveSettings")
  /\ ui' = IF Head(ui.toWin).hostChanged
           THEN preprocessStart([ui EXCEPT !.toWin = Tail(@), !.processed = FALSE])
           ELSE [ui EXCEPT !.toWin = Tail(@)]
  /\ UNCHANGED <<mainVars, sweepVars>>

\* the Generate Embeddings button, lines 2412-2416
UiPreprocess ==
  /\ Click
  /\ ui.workspace
  /\ ~ui.processed /\ ~ui.processing
  /\ ui' = preprocessStart([ui EXCEPT !.clicks = @ + 1])
  /\ UNCHANGED <<mainVars, sweepVars>>

\* preprocess in the main process: the request is rejected at a guard, or
\* accepted, and the run goes to its first await or to its end
UiMainPreprocess ==
  /\ Takes("preprocess")
  /\ IF PreprocessGuard(root, includeFiles, currentPreprocess, tokens, settings) # "ok"
     THEN /\ ui' = [ui EXCEPT !.toMain = Tail(@),
                      !.toWin = Append(@, UiAnswer("rejected", Head(ui.toMain),
                                                   TRUE, <<>>))]
          /\ UNCHANGED mainVars
     ELSE \E r \in RunIds :
            /\ runs[r].pc = "none"
            /\ \A q \in RunIds : q < r => runs[q].pc # "none"
            /\ AcceptRun(r)
            /\ ui' = [ui EXCEPT !.toMain = Tail(@), !.toWin = @ \o RunMessages(r)]
  /\ UNCHANGED sweepVars

\* preprocess(), lines 2011-2014: the request resolved
UiPreprocessResolved ==
  /\ UiReceives("resolved", "preprocess", "preprocess")
  /\ ui' = preprocessResolved([ui EXCEPT !.toWin = Tail(@)])
  /\ UNCHANGED <<mainVars, sweepVars>>

\* preprocess(), lines 2015-2019: the request was rejected
UiPreprocessCatch ==
  /\ UiReceives("rejected", "preprocess", "preprocess")
  /\ ui' = preprocessCatch([ui EXCEPT !.toWin = Tail(@)])
  /\ UNCHANGED <<mainVars, sweepVars>>

\* the listeners of the terminal events, lines 2239-2258
UiOnPreprocessEvent ==
  /\ EffectsFlushed
  /\ ui.toWin # <<>>
  /\ LET event == Head(ui.toWin)
         u == [ui EXCEPT !.toWin = Tail(@)]
     IN /\ event.name \in {"preprocess-complete", "preprocess-cancelled",
                           "preprocess-error"}
        /\ ui' = CASE event.name = "preprocess-complete" -> onPreprocessComplete(u)
                   [] event.name = "preprocess-cancelled" -> onPreprocessCancelled(u)
                   [] OTHER -> onPreprocessError(u)
  /\ UNCHANGED <<mainVars, sweepVars>>

\* the Cancel button, lines 2417-2421
UiCancel ==
  /\ Click
  /\ ui.workspace
  /\ ui.processing
  /\ ui' = [ui EXCEPT !.toMain = Append(@, UiRequest("preprocess-cancel", "",
                                                     NoSettings, FALSE, FALSE)),
                      !.clicks = @ + 1]
  /\ UNCHANGED <<mainVars, sweepVars>>

\* preprocess-cancel in the main process, main.js 305-312
UiMainCancel ==
  /\ Takes("preprocess-cancel")
  /\ IF CancelReturns(currentPreprocess, tokens)
     THEN tokens' = [tokens EXCEPT ![currentPreprocess].cancelled = TRUE,
                                   ![currentPreprocess].aborted = TRUE]
     ELSE UNCHANGED tokens
  /\ ui' = [ui EXCEPT !.toMain = Tail(@)]
  /\ UNCHANGED <<root, includeFiles, docs, settings, currentPreprocess, runs,
                 events, search, call, sweepVars>>

\* exitWorkspace, lines 2163-2164: up to the reset-workspace request
UiExitWorkspace ==
  /\ Click
  /\ ui.workspace
  /\ ui' = [ui EXCEPT !.toMain = Append(@, UiRequest("reset-workspace", "exitWorkspace",
                                                     NoSettings, FALSE, FALSE)),
                      !.clicks = @ + 1]
  /\ UNCHANGED <<mainVars, sweepVars>>

\* reset-workspace in the main process, main.js 194-199
UiMainResetWorkspace ==
  /\ Takes("reset-workspace")
  /\ root' = ""
  /\ includeFiles' = <<>>
  /\ docs' = <<>>
  /\ ui' = [ui EXCEPT !.toMain = Tail(@),
              !.toWin = Append(@, UiAnswer("resolved", Head(ui.toMain), FALSE, <<>>))]
  /\ UNCHANGED <<settings, currentPreprocess, tokens, runs, events, search, call,
                 sweepVars>>

\* exitWorkspace, lines 2165-2167: workspace and files are cleared and
\* line 2167 throws (setIncluded is defined nowhere), so processed and
\* processing (2169-2170) keep their values.
UiExitWorkspaceResume ==
  /\ UiReceives("resolved", "reset-workspace", "exitWorkspace")
  /\ ui' = [ui EXCEPT !.toWin = Tail(@), !.workspace = FALSE, !.files = <<>>]
  /\ UNCHANGED <<mainVars, sweepVars>>

\* a step of run r in the main process, with what it sends to the window
UiExtractSettle(r) ==
  /\ ExtractStep(r)
  /\ ui' = [ui EXCEPT !.toWin = @ \o RunMessages(r)]
  /\ UNCHANGED sweepVars
UiEmbedSettle(r) ==
  /\ EmbedStep(r)
  /\ ui' = [ui EXCEPT !.toWin = @ \o RunMessages(r)]
  /\ UNCHANGED sweepVars
UiEmbedAborted(r) ==
  /\ AbortStep(r)
  /\ ui' = [ui EXCEPT !.toWin = @ \o RunMessages(r)]
  /\ UNCHANGED sweepVars

\* App as it is mounted, with what localStorage holds from earlier sessions
UiInit ==
  /\ WorkspaceInit
  /\ call = NoCall
  /\ WindowInit
  /\ ui \in {[UiIdle EXCEPT !.stored = stored] : stored \in UiStoredArgs}

(***************************************************************************)
(* The window at work                                                      *)
(***************************************************************************)
\* The main process after the window selected the folder of d.pdf, saved
\* the settings s and the run saveSettings started has completed: d.pdf is
\* stored with its two chunks embedded.
ProcessedMain(s) ==
  /\ root = "ws"
  /\ includeFiles = <<"d.pdf">>
  /\ docs = << [id |-> "d.pdf", path |-> "d.pdf", pages |-> 2, owner |-> 1,
                chunks |-> << [id |-> 0, page |-> 1, text |-> <<LetterX>>,
                               embedding |-> <<1, 0>>, norm |-> 1],
                              [id |-> 1, page |-> 2, text |-> <<LetterY, LetterZ>>,
                               embedding |-> <<0, 1>>, norm |-> 1] >>] >>
  /\ settings = [embeddingHost |-> s.embeddingHost, embeddingModel |-> s.embeddingModel,
                 apiKey |-> s.apiKey, chunkSize |-> s.chunkSize,
                 chunkOverlap |-> s.chunkOverlap]
  /\ currentPreprocess = NULL
  /\ tokens = [r \in RunIds |-> TokenInit]
  /\ runs = [r \in RunIds |->
               IF r = 1
               THEN [RunInit EXCEPT !.pc = "done", !.result = "complete",
                                    !.phase = "embed", !.files = <<"d.pdf">>,
                                    !.ret = [kind |-> "summary", docCount |-> 1,
                                             chunkCount |-> 2, message |-> ""]]
               ELSE RunInit]
  /\ events = << ProgressEv(1, "extract", 0, 1, ""),
                 ProgressEv(1, "extract", 1, 1, "d.pdf"),
                 ProgressEv(1, "embed", 0, 2, ""),
                 ProgressEv(1, "embed", 2, 2, ""),
                 CompleteEv(1, [docCount |-> 1, chunkCount |-> 2]) >>
  /\ search = NoSearch

\* The window then: the main view with d.pdf, processed.
ProcessedUi(s) ==
  [UiIdle EXCEPT !.workspace = TRUE, !.files = <<"d.pdf">>, !.processed = TRUE,
                 !.embeddingHost = s.embeddingHost, !.embeddingModel = s.embeddingModel,
                 !.llm = s.llm, !.stored = [present |-> TRUE, settings |-> s]]

\* App as it is mounted, with the main process of src/app/main.js; or a
\* workspace preprocessed with settings of the dialog, the queries of both
\* modes typed and d.pdf selected, or not yet, with a main process that has
\* the handlers of the two exhaustive-search channels or, like
\* src/app/main.js, has none.
AppInit ==
  \/ UiInit
  \/ /\ \E s \in UiSettingsArgs : ProcessedMain(s) /\ ui = ProcessedUi(s)
     /\ call = NoCall
     /\ documentMode = "multi"
     /\ \E typed \in BOOLEAN :
          /\ multiDocState =
               [MultiStateInit EXCEPT !.query = IF typed THEN <<LetterZ>> ELSE <<>>]
          /\ singleDocState =
               [SingleStateInit EXCEPT !.query = IF typed THEN <<LetterZ>> ELSE <<>>,
                                       !.selectedDocument = IF typed THEN "d.pdf" ELSE ""]
     /\ \E handlers \in BOOLEAN : invokes = [InvokeIdle EXCEPT !.handlers = handlers]
     /\ sweeps = [m \in Modes |-> SweepIdle]

\* Every function of the window the user can call, its continuations, the
\* effect and the listeners, with the handlers and the runs, searches and
\* sweeps of the main process between them.
AppNext ==
  \/ UiSelectWorkspace
  \/ UiMainSelectWorkspace
  \/ UiMainSelectWorkspaceSettle
  \/ UiSelectWorkspaceResume
  \/ UiInitializeSettings
  \/ UiInitializeSettingsResume
  \/ RunSearch
  \/ UiMainSearch
  \/ UiMainSearchSettle
  \/ UiInitializeSettingsSearched
  \/ UiInitializeSettingsCatch
  \/ RunSearchResume
  \/ RunSearchCatch
  \/ UiSaveSettings
  \/ UiMainSetSettings
  \/ UiSaveSettingsResume
  \/ UiPreprocess
  \/ UiMainPreprocess
  \/ UiPreprocessResolved
  \/ UiPreprocessCatch
  \/ UiOnPreprocessEvent
  \/ UiCancel
  \/ UiMainCancel
  \/ UiExitWorkspace
  \/ UiMainResetWorkspace
  \/ UiExitWorkspaceResume
  \/ \E r \in RunIds : UiExtractSettle(r)
  \/ \E r \in RunIds : UiEmbedSettle(r)
  \/ \E r \in RunIds : UiEmbedAborted(r)
  \/ OnDocumentModeChange
  \/ SetQuery
  \/ OnDocumentSelect
  \/ HandleExhaustiveSearch
  \/ SweepRequest
  \/ HandleExhaustiveSearchCatch
  \/ CancelExhaustiveSearch
  \/ SweepCancelRequest
  \/ CancelExhaustiveSearchResume
  \/ CancelExhaustiveSearchCatch
  \/ OnExhaustiveSearchEvent
  \/ ClassifyExhaustiveResult
  \/ \E m \in Modes : SweepStart(m)
  \/ \E m \in Modes : SweepProgress(m)
  \/ \E m \in Modes : SweepComplete(m)
  \/ \E m \in Modes : SweepCancelled(m)
  \/ \E m \in Modes : SweepError(m)

AppSpec == AppInit /\ [][AppNext]_vars


(***************************************************************************)
(* The specification                                                       *)
(***************************************************************************)
Next ==
  \/ SelectWorkspace
  \/ SetSettings
  \/ SetIncludeFiles
  \/ ResetWorkspace
  \/ Preprocess
  \/ \E r \in RunIds : ExtractSettle(r)
  \/ \E r \in RunIds : EmbedSettle(r)
  \/ \E r \in RunIds : EmbedAborted(r)
  \/ PreprocessCancel
  \/ Search
  \/ SearchSettle

Spec == Init /\ [][Next]_vars

\* Lists set-include-files is called with while termination is looked at:
\* a short PDF, an unsupported file and a text file.
LiveIncludeArgs == { <<"d.pdf", "c.doc", "b.txt">> }

LiveSetIncludeFiles ==
  /\ \E files \in LiveIncludeArgs : includeFiles' = files
  /\ UNCHANGED <<root, docs, settings, currentPreprocess, tokens, runs,
                 events, search, call, renderer>>

\* The calls that bear on a run, in any order.
LiveNext ==
  \/ SelectWorkspace
  \/ SetSettings
  \/ LiveSetIncludeFiles
  \/ ResetWorkspace
  \/ Preprocess
  \/ \E r \in RunIds : ExtractSettle(r)
  \/ \E r \in RunIds : EmbedSettle(r)
  \/ \E r \in RunIds : EmbedAborted(r)
  \/ PreprocessCancel

\* The continuation of run r after an await: ExtractSettle(r),
\* EmbedSettle(r) or EmbedAborted(r), the only steps that change the locals
\* of a suspended run.
Awaiting(r) == runs[r].pc \in {"extractAwait", "embedAwait"}
Settles(r) == Awaiting(r) /\ runs'[r] # runs[r]

\* Every await of a run settles: the page extraction resolves or rejects,
\* the embedding request is answered, fails, or is rejected by its abort.
\* This is weak fairness of the continuation, WF_vars(Settles(r)), written
\* out with its enabling condition: the continuation can run exactly while
\* the run is suspended at an await.
AwaitsSettle ==
  \A r \in RunIds : []<>(~Awaiting(r)) \/ []<><<Settles(r)>>_vars

LiveSpec == Init /\ [][LiveNext]_vars /\ AwaitsSettle


(***************************************************************************)
(* Properties                                                              *)
(***************************************************************************)
Active(r) == runs[r].pc \in {"extractAwait", "embedAwait"}
AnyActive == \E r \in RunIds : Active(r)
AtMostOneActive == Cardinality({r \in RunIds : Active(r)}) <= 1

\* run r ends in this step
Ends(r) == runs[r].pc # "done" /\ runs'[r].pc = "done"

TerminalNames == {"preprocess-complete", "preprocess-cancelled", "preprocess-error"}
EventNames == TerminalNames \cup {"preprocess-progress"}

\* positions in the log of the events of run r with a name in names
EventIdx(log, r, names) ==
  {i \in 1..Len(log) : log[i].run = r /\ log[i].name \in names}

\* what a preprocess call would answer in the current state
GuardNow == PreprocessGuard(root, includeFiles, currentPreprocess, tokens, settings)

HasEmbedding(c) == c.embedding # NullEmbedding
SomeChunkEmbedded(ds) ==
  \E d \in 1..Len(ds) : \E k \in 1..Len(ds[d].chunks) : HasEmbedding(ds[d].chunks[k])

\* C1: at most one preprocessing run is active at any time; while a run is
\* active a preprocess call is answered by an error, and the step of that
\* call leaves the run's token, the documents, the run itself and the events
\* sent as they were.
C1_SingleFlight ==
  [][ /\ AtMostOneActive'
      /\ (AnyActive => GuardNow # "ok")
      /\ (AnyActive /\ Preprocess =>
            UNCHANGED <<currentPreprocess, tokens, docs, runs, events>>) ]_vars

\* a run is suspended in an embedding request, with documents stored, and a
\* preprocess call would be answered with the already-running error
C1_Witness ==
  \E r \in RunIds :
    /\ runs[r].pc = "embedAwait"
    /\ currentPreprocess = r
    /\ Len(docs) > 0
    /\ GuardNow = MsgAlreadyRunning

\* C2: a run that ended because a cancel check (before a file, before a
\* batch) saw the flag leaves the document collection empty and has sent
\* exactly one preprocess-cancelled event, no preprocess-error and no
\* preprocess-complete.
C2_CancelRollback ==
  \A r \in RunIds :
    runs[r].pc = "done" /\ runs[r].cause = "flag" =>
      /\ docs = <<>>
      /\ Cardinality(EventIdx(events, r, {"preprocess-cancelled"})) = 1
      /\ EventIdx(events, r, {"preprocess-error", "preprocess-complete"}) = {}

\* the flag was seen by the check before a batch, after documents had been
\* extracted
C2_Witness ==
  \E r \in RunIds :
    /\ runs[r].pc = "done" /\ runs[r].cause = "flag" /\ runs[r].phase = "embed"
    /\ \E i \in 1..Len(events) :
         events[i].run = r /\ events[i].phase = "embed" /\ events[i].total > 0

\* C3 (as claimed): a run that ended because of an accepted cancel request,
\* noticed at a check or by the abort of the embedding request in flight,
\* has sent no preprocess-error event.
C3_CancelNeverError ==
  \A r \in RunIds :
    runs[r].pc = "done" /\ runs[r].cause \in {"flag", "abort"} =>
      EventIdx(events, r, {"preprocess-error"}) = {}

\* C4 (as claimed): in every state in which no document has an embedded
\* chunk a search call is answered with the not-ready error.
C4_SearchNotReady ==
  ~SomeChunkEmbedded(docs) => SearchGuard(docs) = MsgNotReady

\* C5: the step of a preprocess call that an entry guard rejects sends no
\* event and leaves the documents, the settings and the current token as
\* they were.
C5_RejectedCallNoEffect ==
  [][ Preprocess /\ GuardNow # "ok" =>
        UNCHANGED <<events, docs, settings, currentPreprocess, tokens>> ]_vars

\* a call would be rejected for blank settings while documents of a
\* completed run are in the collection
C5_Witness ==
  /\ GuardNow = MsgSettings
  /\ Len(docs) > 0
  /\ \E r \in RunIds : runs[r].pc = "done" /\ runs[r].result = "complete"

\* C6 (as claimed): whenever a run is active a preprocess call is answered
\* with the already-running error, whatever root, include list and settings
\* are.
C6_AlwaysAlreadyRunning == AnyActive => GuardNow = MsgAlreadyRunning

\* C6 (amended): whenever a run is active a preprocess call is rejected
\* whatever the settings are: with the not-configured error when the root is
\* unset or the include list is empty, and with the already-running error
\* otherwise.
C6_RejectedWhileActive ==
  AnyActive =>
    GuardNow = (IF root = "" \/ Len(includeFiles) = 0
                THEN MsgNotConfigured ELSE MsgAlreadyRunning)

\* a run is active after reset-workspace, with blank settings
C6_Witness ==
  /\ AnyActive
  /\ root = ""
  /\ settings.embeddingHost = ""

\* C7: a run that has ended has sent exactly one terminal event, the one
\* of its outcome, and no event of it follows; a run that has not ended
\* has sent none.
C7_OneTerminalEvent ==
  \A r \in RunIds :
    /\ Active(r) => EventIdx(events, r, TerminalNames) = {}
    /\ runs[r].pc = "done" =>
         /\ Cardinality(EventIdx(events, r, TerminalNames)) = 1
         /\ \A i \in EventIdx(events, r, TerminalNames) :
              /\ events[i].name = "preprocess-" \o runs[r].result
              /\ \A j \in EventIdx(events, r, EventNames) : j <= i

\* a run ended in error after progress events of both phases
C7_Witness ==
  \E r \in RunIds :
    /\ runs[r].pc = "done" /\ runs[r].result = "error"
    /\ \E i \in 1..Len(events) : events[i].phase = "embed" /\ events[i].current > 0

\* the log since the last accepted call is in order: per run and phase the
\* counter never decreases, no extract event follows an embed event, and
\* every event is of the run that call started
EventsInOrder ==
  /\ \A i, j \in 1..Len(events) :
       i < j /\ events[i].name = "preprocess-progress"
             /\ events[j].name = "preprocess-progress"
             /\ events[i].run = events[j].run =>
         /\ events[i].phase = events[j].phase => events[i].current <= events[j].current
         /\ ~(events[i].phase = "embed" /\ events[j].phase = "extract")
  /\ \A i \in 1..Len(events) :
       /\ events[i].run = events[1].run
       /\ \A r \in RunIds : Active(r) => events[i].run = r

\* C8: within one run the counter of the progress events of one phase
\* never decreases and no extract event follows an embed event; the first
\* event of a later run is sent only after the terminal event of the
\* previous run, and nothing of the previous run is sent after it.
C8_EventOrder ==
  [][ /\ EventsInOrder'
      /\ (Len(events) > 0 /\ Len(events') > 0 /\ events'[1].run # events[1].run =>
            /\ events[Len(events)].name \in TerminalNames
            /\ events[Len(events)].run = events[1].run) ]_vars

\* two batches were reported after the extract events
C8_Witness ==
  \E i, j \in 1..Len(events) :
    /\ i < j
    /\ events[i].phase = "embed" /\ events[j].phase = "embed"
    /\ 0 < events[i].current /\ events[i].current < events[j].current
    /\ \E k \in 1..Len(events) : events[k].phase = "extract" /\ events[k].current > 1

\* the distinct paths of a list whose extension is supported
SupportedPaths(files) ==
  {files[k] : k \in {k \in 1..Len(files) :
                       ToLowerCase(ExtName(files[k])) \in {".pdf", ".txt", ".md"}}}

\* C9 (as claimed): when a run completes, the collection holds exactly one
\* document per distinct included path with a supported extension, each
\* created by this run.
C9_CompleteHoldsAllDocs ==
  [][ \A r \in RunIds :
        Ends(r) /\ runs'[r].result = "complete" =>
          /\ {docs'[d].id : d \in 1..Len(docs')} = SupportedPaths(runs'[r].files)
          /\ Len(docs') = Cardinality(SupportedPaths(runs'[r].files))
          /\ \A d \in 1..Len(docs') : docs'[d].owner = r ]_vars

\* the guards with no run in the way
Configured ==
  root # "" /\ Len(includeFiles) > 0 /\
  settings.embeddingHost # "" /\ settings.embeddingModel # ""

\* the step in which run r completes sends preprocess-complete with the
\* number of documents and of chunks of the collection, returns the same
\* summary and clears the token, so that preprocess-cancel answers false
CompletesWithSummary(r) ==
  LET e == events'[Len(events')]
  IN /\ e.name = "preprocess-complete" /\ e.run = r
     /\ e.docCount = Len(docs')
     /\ e.chunkCount = SumChunks(docs', 1)
     /\ runs'[r].ret = [kind |-> "summary", docCount |-> e.docCount,
                        chunkCount |-> e.chunkCount, message |-> ""]
     /\ currentPreprocess' = NULL
     /\ ~CancelReturns(currentPreprocess', tokens')

\* C10 (as claimed): the step in which a run completes sends
\* preprocess-complete with the counts of the collection, returns the same
\* summary, preprocess-cancel answers false afterwards and a new preprocess
\* call is accepted.
C10_NewRunAccepted ==
  [][ \A r \in RunIds :
        Ends(r) /\ runs'[r].result = "complete" =>
          /\ CompletesWithSummary(r)
          /\ GuardNow' = "ok" ]_vars

\* C10 (amended): the step in which a run completes sends
\* preprocess-complete with the counts of the collection, returns the same
\* summary, preprocess-cancel answers false afterwards, and a new preprocess
\* call is never answered already-running: it is accepted exactly when the
\* root, the include list and the settings, as they are by then, pass the
\* other two guards.
C10_CompleteSummary ==
  [][ \A r \in RunIds :
        Ends(r) /\ runs'[r].result = "complete" =>
          /\ CompletesWithSummary(r)
          /\ GuardNow' # MsgAlreadyRunning
          /\ (GuardNow' = "ok") = Configured' ]_vars

\* a run completed with two documents and more chunks than one batch, one
\* of them left without embedding
C10_Witness ==
  \E r \in RunIds :
    /\ runs[r].pc = "done" /\ runs[r].result = "complete"
    /\ runs[r].ret.docCount = 2 /\ runs[r].ret.chunkCount > batchSize
    /\ Len(docs) = 2
    /\ \E d \in 1..Len(docs) : \E k \in 1..Len(docs[d].chunks) :
         ~HasEmbedding(docs[d].chunks[k])

\* the causes of a failure that is not a cancellation: a rejected
\* extraction, a provider failure, a fault of the handler's own code
ErrorCauses == {"io", "provider", "internal"}

\* the documents of ds with their chunks, whatever their embeddings
DocShapes(ds) ==
  [d \in 1..Len(ds) |->
     [id |-> ds[d].id, owner |-> ds[d].owner,
      chunks |-> [k \in 1..Len(ds[d].chunks) |->
                    [id |-> ds[d].chunks[k].id, page |-> ds[d].chunks[k].page,
                     text |-> ds[d].chunks[k].text]]]]

\* the step in which run r fails sends exactly one preprocess-error, as its
\* last event, with the message the call is rejected with; the token is
\* released and every document stored so far stays, with all its chunks,
\* next to those the step itself stored before the failure
FailsWithError(r) ==
  LET e == events'[Len(events')]
  IN /\ e.name = "preprocess-error" /\ e.run = r
     /\ Cardinality(EventIdx(events', r, TerminalNames)) = 1
     /\ runs'[r].ret.kind = "error" /\ runs'[r].ret.message = e.message
     /\ e.message \in {MsgExtractError, MsgAxiosError, MsgInvalidResponse, MsgTypeError}
     /\ currentPreprocess' = NULL
     /\ ~CancelReturns(currentPreprocess', tokens')
     /\ Len(docs') >= Len(docs)
     /\ SubSeq(DocShapes(docs'), 1, Len(docs)) = DocShapes(docs)

\* C11 (as claimed): a run that fails with an error other than a
\* cancellation sends one preprocess-error with the failure message, rejects
\* the call, leaves the documents stored so far in place and releases the
\* token, and a later preprocess call is accepted.
C11_ErrorThenAccepted ==
  [][ \A r \in RunIds :
        Ends(r) /\ runs'[r].result = "error" /\ runs'[r].cause \in ErrorCauses =>
          /\ FailsWithError(r)
          /\ GuardNow' = "ok" ]_vars

\* C11 (amended): a run that fails with an error other than a cancellation
\* sends one preprocess-error with the failure message, rejects the call
\* with it, leaves the documents stored so far in place and releases the
\* token: a later preprocess call is never answered already-running, and is
\* accepted exactly when root, include list and settings pass the other
\* guards.
C11_ErrorKeepsDocs ==
  [][ \A r \in RunIds :
        Ends(r) /\ runs'[r].result = "error" /\ runs'[r].cause \in ErrorCauses =>
          /\ FailsWithError(r)
          /\ GuardNow' # MsgAlreadyRunning
          /\ (GuardNow' = "ok") = Configured' ]_vars

\* a run failed on a provider error in the embed phase and its documents
\* are still in the collection
C11_Witness ==
  \E r \in RunIds :
    /\ runs[r].pc = "done" /\ runs[r].result = "error" /\ runs[r].cause = "provider"
    /\ currentPreprocess = NULL
    /\ \E d \in 1..Len(docs) : docs[d].owner = r /\ Len(docs[d].chunks) > 0

\* C12 (as claimed): once a run has failed with an error, the collection
\* holds no document of that run.
C12_ErrorDiscardsPartial ==
  \A r \in RunIds :
    runs[r].pc = "done" /\ runs[r].result = "error" /\ runs[r].cause \in ErrorCauses =>
      \A d \in 1..Len(docs) : docs[d].owner # r

\* C13: preprocess-cancel answers true exactly when a run is active; the
\* step of the call leaves documents, include list and settings as they
\* were, and when no run is active it changes nothing at all.
C13_CancelFrame ==
  [][ /\ CancelReturns(currentPreprocess, tokens) = AnyActive
      /\ (PreprocessCancel => UNCHANGED <<docs, includeFiles, settings, root, runs, events>>)
      /\ (PreprocessCancel /\ ~AnyActive => UNCHANGED vars) ]_vars

\* a cancel has been accepted for a run that holds documents and is still
\* suspended
C13_Witness ==
  \E r \in RunIds :
    /\ Active(r) /\ currentPreprocess = r
    /\ tokens[r].cancelled /\ tokens[r].aborted
    /\ Len(docs) > 0

\* number of progress events of run r that report a file extracted or a
\* batch embedded
WorkDone(log, r) ==
  Cardinality({i \in 1..Len(log) :
                 /\ log[i].run = r /\ log[i].name = "preprocess-progress"
                 /\ log[i].current > 0})

\* C14: once a cancel has been accepted for a run, the next step of that
\* run ends it: it suspends in no further extraction and no further
\* embedding request, and reports at most the one file whose extraction
\* was in progress and no batch.
C14_CooperativeCancel ==
  [][ \A r \in RunIds :
        Active(r) /\ tokens[r].cancelled /\ runs'[r] # runs[r] =>
          /\ runs'[r].pc = "done"
          /\ WorkDone(events', r) <=
                WorkDone(events, r) + (IF runs[r].pc = "extractAwait" THEN 1 ELSE 0) ]_vars

\* a cancelled run ended in its extract phase after the extraction in
\* progress had finished and been reported
C14_Witness ==
  \E r \in RunIds :
    /\ runs[r].pc = "done" /\ runs[r].cause = "flag" /\ runs[r].phase = "extract"
    /\ \E i \in 1..Len(events) :
         events[i].run = r /\ events[i].phase = "extract" /\ events[i].current > 0

\* the text has a character that is not whitespace
NonBlank(text) == \E i \in 1..Len(text) : ~IsWhitespace(text[i])

\* effective size and effective overlap as the specification gives them
EffSize(chunkSize) == IF chunkSize > 200 THEN chunkSize ELSE 200
EffOverlap(chunkSize, overlap) ==
  LET cap == (8 * EffSize(chunkSize)) \div 10
      o == IF overlap < cap THEN overlap ELSE cap
  IN IF o > 0 THEN o ELSE 0

\* the first window followed by every later window without its first ov
\* characters
RECURSIVE Rebuild(_, _, _)
Rebuild(out, ov, k) ==
  IF k > Len(out) THEN <<>>
  ELSE (IF k = 1 THEN out[k].text ELSE SubSeq(out[k].text, ov + 1, Len(out[k].text)))
       \o Rebuild(out, ov, k + 1)

Returned == call.pc = "returned"

\* C15: for a non-blank text, the first window followed by each later
\* window without its first (effective overlap) characters is the text.
C15_Reconstructs ==
  Returned /\ NonBlank(call.text) =>
    Rebuild(call.out, EffOverlap(call.chunkSize, call.overlap), 1) = call.text

\* a text was cut into at least three overlapping windows
C15_Witness ==
  /\ Returned /\ NonBlank(call.text)
  /\ Len(call.out) >= 3
  /\ EffOverlap(call.chunkSize, call.overlap) > 0

\* C16: the result is empty exactly when the text is empty or
\* whitespace-only; otherwise no window is empty, none is longer than the
\* effective size and all but the last have exactly that length.
C16_WindowLengths ==
  Returned =>
    /\ (call.out = <<>>) = ~NonBlank(call.text)
    /\ \A k \in 1..Len(call.out) :
         /\ Len(call.out[k].text) >= 1
         /\ Len(call.out[k].text) <= EffSize(call.chunkSize)
         /\ k < Len(call.out) => Len(call.out[k].text) = EffSize(call.chunkSize)

\* a whitespace-only text longer than a window gave nothing
C16_Witness ==
  /\ Returned /\ ~NonBlank(call.text)
  /\ Len(call.text) > EffSize(call.chunkSize)
  /\ call.out = <<>>

\* the windows of a text of n characters cut at multiples of step
WindowCount(n, size, step) ==
  CHOOSE c \in 1..n : (c - 1) * step + size >= n /\ (c = 1 \/ (c - 2) * step + size < n)

\* C17: with size = max(200, chunkSize) and ov = max(0, min(overlap,
\* floor(0.8 size))), window k of a non-blank text is the characters from
\* (k - 1)(size - ov) up to size further or the end of the text, until the
\* end is reached; a page of 300 characters with size 200 and overlap 50
\* gives [0, 200) and [150, 300).
C17_WindowOffsets ==
  Returned /\ NonBlank(call.text) =>
    LET size == EffSize(call.chunkSize)
        step == size - EffOverlap(call.chunkSize, call.overlap)
        n == Len(call.text)
    IN /\ Len(call.out) = WindowCount(n, size, step)
       /\ \A k \in 1..Len(call.out) :
            LET from == (k - 1) * step
                to == IF from + size < n THEN from + size ELSE n
            IN call.out[k] = [page |-> call.page,
                              text |-> SubSeq(call.text, from + 1, to)]
       /\ (n = 300 /\ call.chunkSize = 200 /\ call.overlap = 50 =>
            /\ Len(call.out) = 2
            /\ call.out[1].text = SubSeq(call.text, 1, 200)
            /\ call.out[2].text = SubSeq(call.text, 151, 300))

\* the page of 300 characters was cut with size 200 and overlap 50
C17_Witness ==
  /\ Returned /\ NonBlank(call.text)
  /\ Len(call.text) = 300 /\ call.chunkSize = 200 /\ call.overlap = 50
  /\ Len(call.out) = 2

\* position of the last occurrence of path among the first n of files, 0
\* if there is none
LastIdx(files, n, path) ==
  LET at == {i \in 1..n : files[i] = path}
  IN IF at = {} THEN 0 ELSE CHOOSE i \in at : \A j \in at : j <= i

\* how many files of its list run r has gone through
FilesDone(r) ==
  IF Active(r) THEN runs[r].idx
  ELSE IF runs[r].pc = "done" /\ runs[r].result = "complete" THEN Len(runs[r].files)
  ELSE 0

\* C18: in every state the chunk ids of the collection are pairwise
\* different: the ids of a document are consecutive numbers in window
\* order, with pages in order, and the ranges of two documents do not
\* meet; the ids of a document later in the include list are larger, and
\* the next id of the run is larger than every id it has handed out.
C18_ChunkIdsUnique ==
  /\ \A d \in 1..Len(docs) : \A k \in 1..Len(docs[d].chunks) :
       /\ docs[d].chunks[k].id = docs[d].chunks[1].id + k - 1
       /\ docs[d].chunks[k].id >= 0
       /\ k > 1 => docs[d].chunks[k - 1].page <= docs[d].chunks[k].page
  /\ \A d1, d2 \in 1..Len(docs) :
       d1 # d2 /\ Len(docs[d1].chunks) > 0 /\ Len(docs[d2].chunks) > 0 =>
         LET lo1 == docs[d1].chunks[1].id
             hi1 == docs[d1].chunks[Len(docs[d1].chunks)].id
             lo2 == docs[d2].chunks[1].id
             hi2 == docs[d2].chunks[Len(docs[d2].chunks)].id
             r == docs[d1].owner
         IN /\ hi1 < lo2 \/ hi2 < lo1
            /\ docs[d2].owner = r
            /\ (FilesDone(r) > 0 /\
                LastIdx(runs[r].files, FilesDone(r), docs[d1].id)
                  < LastIdx(runs[r].files, FilesDone(r), docs[d2].id)) => hi1 < lo2
  /\ \A r \in RunIds : Active(r) =>
       \A d \in 1..Len(docs) : \A k \in 1..Len(docs[d].chunks) :
         docs[d].owner = r /\ docs[d].chunks[k].id < runs[r].globalChunkId

\* the collection holds two documents with chunks, and the one stored
\* first in the Map got its ids last (its path is listed twice)
C18_Witness ==
  /\ Len(docs) = 2
  /\ Len(docs[1].chunks) > 1 /\ Len(docs[2].chunks) > 1
  /\ docs[2].chunks[Len(docs[2].chunks)].id < docs[1].chunks[1].id

\* C19: in every state every chunk has either no embedding and norm 0, or
\* an embedding and the norm of that embedding.
C19_EmbeddingNormTogether ==
  \A d \in 1..Len(docs) : \A k \in 1..Len(docs[d].chunks) :
    LET c == docs[d].chunks[k]
    IN IF c.embedding = NullEmbedding THEN c.norm = 0
       ELSE c.norm = norm(c.embedding) /\ c.norm * c.norm = dot(c.embedding, c.embedding)

\* a run is suspended between two batches: one chunk has its embedding and
\* a norm that is not 0, another has neither
C19_Witness ==
  /\ \E r \in RunIds : runs[r].pc = "embedAwait" /\ runs[r].i > 0
  /\ \E d \in 1..Len(docs) : \E k \in 1..Len(docs[d].chunks) :
       HasEmbedding(docs[d].chunks[k]) /\ docs[d].chunks[k].norm > 0
  /\ \E d \in 1..Len(docs) : \E k \in 1..Len(docs[d].chunks) :
       ~HasEmbedding(docs[d].chunks[k])

\* C20 (as claimed): when a run has completed, every chunk of every
\* document of the collection has an embedding, and the last embed progress
\* event reported current equal to total.
C20_CompleteAllEmbedded ==
  \A r \in RunIds :
    runs[r].pc = "done" /\ runs[r].result = "complete" =>
      /\ \A d \in 1..Len(docs) : \A k \in 1..Len(docs[d].chunks) :
           HasEmbedding(docs[d].chunks[k])
      /\ LET embed == {i \in 1..Len(events) :
                         events[i].run = r /\ events[i].phase = "embed"}
         IN \A i \in embed :
              (\A j \in embed : j <= i) => events[i].current = events[i].total

\* position of the first occurrence of path in files, 0 if there is none
FirstIdx(files, path) ==
  LET at == {i \in 1..Len(files) : files[i] = path}
  IN IF at = {} THEN 0 ELSE CHOOSE i \in at : \A j \in at : i <= j

\* the chunk a flattened reference points to, if its document is still in ds
Attached(ds, ref) ==
  \E d \in 1..Len(ds) : ds[d].id = ref.docId /\ ds[d].owner = ref.owner
RefChunk(ds, ref) ==
  LET d == CHOOSE d \in 1..Len(ds) : ds[d].id = ref.docId /\ ds[d].owner = ref.owner
  IN ds[d].chunks[ref.k]

\* C21 (as claimed): the job list of the embed phase is in include-list
\* order, then chunk order; the batches are the consecutive stretches of at
\* most batchSize jobs, each requested after the progress event of the one
\* before; and the response to a batch writes vector j on job j of that
\* batch and on no chunk outside the batch.
C21_BatchesInOrder ==
  [][ \A r \in RunIds :
        runs[r].pc = "embedAwait" /\ runs'[r] # runs[r] =>
          LET all == runs[r].allChunks
              n == Len(all)
              i == runs[r].i
              end == IF i + batchSize < n THEN i + batchSize ELSE n
          IN /\ i % batchSize = 0 /\ i < n
             /\ \A p, q \in 1..n :
                  p < q =>
                    \/ FirstIdx(runs[r].files, all[p].docId)
                         < FirstIdx(runs[r].files, all[q].docId)
                    \/ all[p].docId = all[q].docId /\ all[p].k < all[q].k
             /\ events[Len(events)].phase = "embed"
             /\ events[Len(events)].current = runs[r].processed
             /\ \A p \in 1..n :
                  Attached(docs, all[p]) /\ Attached(docs', all[p]) =>
                    LET old == RefChunk(docs, all[p])
                        new == RefChunk(docs', all[p])
                    IN IF i < p /\ p <= end
                       THEN new = old \/
                            (/\ new.embedding = EmbedOf(all[p].text)
                             /\ new.norm = norm(new.embedding))
                       ELSE new = old
             /\ runs'[r].pc = "embedAwait" =>
                  runs'[r].i = i + batchSize /\ runs'[r].allChunks = all ]_vars

\* the extract events of run r in the log, by position
ExtractEvents(log, r) ==
  SelectSeq(log, LAMBDA e : e.run = r /\ e.name = "preprocess-progress" /\ e.phase = "extract")

\* C22: the extract events of a run count 0, 1, 2, ...: after the opening
\* event one event per entry of the list the run iterates, skipped entries
\* included, each naming its entry; a run suspended in an extraction has
\* reported every entry before it, and a run that reached the embed phase
\* has reported all of them.
C22_ExtractProgress ==
  \A r \in RunIds :
    runs[r].pc \in {"extractAwait", "embedAwait", "done"} =>
      LET ex == ExtractEvents(events, r)
      IN /\ Len(ex) >= 1 /\ Len(ex) <= Len(runs[r].files) + 1
         /\ \A k \in 1..Len(ex) :
              /\ ex[k].current = k - 1
              /\ k > 1 => ex[k].file = runs[r].files[k - 1]
         /\ runs[r].pc = "extractAwait" => Len(ex) = runs[r].idx + 1
         /\ runs[r].phase = "embed" => ex[Len(ex)].current = Len(runs[r].files)

\* a run reached the embed phase over a list with a skipped entry, which
\* was reported like the others
C22_Witness ==
  \E r \in RunIds :
    /\ runs[r].phase = "embed"
    /\ \E i \in 1..Len(events) :
         /\ events[i].run = r /\ events[i].phase = "extract"
         /\ events[i].file = "c.doc" /\ events[i].current = 2

\* the search has returned: its query was embedded and the collection, as
\* it was when the request settled, holds documents
Ranked == call.pc = "returned" /\ call.kind \in {"ok", "long"} /\ Len(docs) > 0

\* the chunk of the collection a hit names
HitChunk(ds, hit) ==
  LET d == MapIndex(ds, hit.id[1])
      k == CHOOSE k \in 1..Len(ds[d].chunks) : ds[d].chunks[k].id = hit.id[2]
  IN ds[d].chunks[k]

\* C23: a search whose query was embedded returns results whatever the
\* chunks hold: a hit on a chunk of norm 0 (zero vector, or no embedding
\* yet) has score 0, and with a query of norm 0 every hit has score 0.
C23_ZeroNormScoresZero ==
  Ranked =>
    /\ call.out.kind = "results"
    /\ \A e \in 1..Len(call.out.results) :
         \A h \in 1..Len(call.out.results[e].hits) :
           LET hit == call.out.results[e].hits[h]
           IN /\ HitChunk(docs, hit).norm = 0 => hit.score = 0
              /\ norm(EmbedOf(call.query)) = 0 => hit.score = 0
              /\ hit.score >= 0 /\ hit.score <= ScoreUnit

\* results hold a hit of score 0 on a chunk without embedding next to a
\* hit with a positive score
C23_Witness ==
  /\ Ranked /\ call.out.kind = "results"
  /\ \E e \in 1..Len(call.out.results) :
       LET hits == call.out.results[e].hits
       IN /\ \E h \in 1..Len(hits) :
               /\ HitChunk(docs, hits[h]).embedding = NullEmbedding
               /\ hits[h].score = 0
          /\ \E h \in 1..Len(hits) : hits[h].score > 0

\* position in its document of the chunk a hit names
Ordinal(ds, hit) ==
  LET d == MapIndex(ds, hit.id[1])
  IN CHOOSE k \in 1..Len(ds[d].chunks) : ds[d].chunks[k].id = hit.id[2]

\* C24: with perDocN >= 1 the hits of a returned document are
\* min(perDocN, number of chunks) different chunks of it, each with its
\* score, in non-increasing score order; every chunk left out scores no
\* higher than the last hit; equal scores keep chunk order, among the hits
\* and at the cut.  Scores (1, 0.6, 1) at ordinals (0, 1, 2) with
\* perDocN = 2 give ordinals (0, 2), the first and the third chunk.
C24_TopHitsStable ==
  Ranked /\ call.perDocN >= 1 =>
    \A e \in 1..Len(call.out.results) :
      LET hits == call.out.results[e].hits
          doc == docs[MapIndex(docs, call.out.results[e].docId)]
          n == Len(doc.chunks)
          qEmb == EmbedOf(call.query)
          score(k) == Similarity(qEmb, norm(qEmb), doc.chunks[k])
          ord(h) == Ordinal(docs, hits[h])
          picked == {ord(h) : h \in 1..Len(hits)}
      IN /\ Len(hits) = (IF call.perDocN < n THEN call.perDocN ELSE n)
         /\ Cardinality(picked) = Len(hits)
         /\ \A h \in 1..Len(hits) :
              /\ hits[h].id[1] = doc.id
              /\ hits[h].score = score(ord(h))
              /\ hits[h].page = doc.chunks[ord(h)].page
              /\ hits[h].text = doc.chunks[ord(h)].text
         /\ \A g, h \in 1..Len(hits) :
              g < h => \/ hits[g].score > hits[h].score
                       \/ hits[g].score = hits[h].score /\ ord(g) < ord(h)
         /\ \A k \in (1..n) \ picked : \A h \in 1..Len(hits) :
              \/ score(k) < hits[h].score
              \/ score(k) = hits[h].score /\ ord(h) < k
         /\ (doc.id = "e.pdf" /\ n >= 3 /\ call.perDocN = 2
             /\ score(1) = ScoreUnit /\ score(2) < ScoreUnit /\ score(3) = ScoreUnit
             /\ (\A k \in 4..n : score(k) < ScoreUnit) =>
               ord(1) = 1 /\ ord(2) = 3)

\* the top two chunks of e.pdf were returned, its first and its third with
\* equal scores, the second scoring lower
C24_Witness ==
  /\ Ranked /\ call.perDocN = 2
  /\ \E e \in 1..Len(call.out.results) :
       LET hits == call.out.results[e].hits
       IN /\ Len(docs[MapIndex(docs, call.out.results[e].docId)].chunks) = 4
          /\ Len(hits) = 2
          /\ Ordinal(docs, hits[1]) = 1 /\ Ordinal(docs, hits[2]) = 3
          /\ hits[1].score = hits[2].score /\ hits[1].score > 0

\* C25 (as claimed): whatever perDocN is, no entry of the returned list
\* has an empty hits list, and the entries are in non-increasing order of
\* the score of their first hit.
C25_NoEmptyEntries ==
  Ranked =>
    /\ \A e \in 1..Len(call.out.results) : Len(call.out.results[e].hits) > 0
    /\ \A e, f \in 1..Len(call.out.results) :
         e < f /\ Len(call.out.results[e].hits) > 0
               /\ Len(call.out.results[f].hits) > 0 =>
           call.out.results[e].hits[1].score >= call.out.results[f].hits[1].score

\* C26: search only reads.  A step of the search handler (a call, which
\* throws or is suspended beside the calls already suspended, or the
\* continuation of any suspended call after its query embedding request)
\* leaves the workspace folder, the include list, the document collection
\* with every chunk's embedding and norm, the settings, currentPreprocess,
\* the cancel tokens and the runs unchanged; and a step that cancels or
\* aborts a run's token leaves every suspended search and its pending
\* request as they were.
C26_SearchOnlyReads ==
  [][ /\ search' # search
         => UNCHANGED <<root, includeFiles, docs, settings, currentPreprocess,
                        tokens, runs, events>>
      /\ (\E r \in RunIds : tokens'[r] # tokens[r] /\ tokens'[r].aborted)
         => UNCHANGED search ]_vars

\* Two searches are suspended in their query embedding requests while a run
\* that holds documents with embedded chunks is suspended with its token
\* cancelled and aborted.
C26_Witness ==
  /\ Len(search) = 2
  /\ \E r \in RunIds : Active(r) /\ tokens[r].cancelled /\ tokens[r].aborted
  /\ currentPreprocess # NULL
  /\ SomeChunkEmbedded(docs)

\* C27: after reset-workspace the document collection stays empty until a
\* preprocess call is accepted.  The handler clears the workspace folder
\* with the collection and a call is accepted only with a folder selected,
\* so while no folder is selected no call has been accepted since the last
\* reset and the collection must be empty.
C27_EmptyAfterReset == root = "" => Len(docs) = 0

Buckets == {"relevant", "nonRelevant", "uncertain"}
BucketCount(res) == Len(res.relevant) + Len(res.nonRelevant) + Len(res.uncertain)
OtherMode(m) == IF m = "multi" THEN "single" ELSE "multi"
IsPrefix(s, t) == Len(s) <= Len(t) /\ SubSeq(t, 1, Len(s)) = s
\* the bucket a classification belongs in
BucketOf(c) == IF c = 1 THEN "relevant" ELSE IF c = 2 THEN "nonRelevant" ELSE "uncertain"
\* the ids of the results a mode's buckets hold
IdsOf(res) ==
  {ResultId((res.relevant \o res.nonRelevant \o res.uncertain)[k]) :
     k \in 1..BucketCount(res)}
\* the step in which the window is handed the event name of mode m's sweep
Handed(name, m) ==
  /\ Receives(name, "")
  /\ Head(ui.toWin).data.mode = m
  /\ ui'.toWin = Tail(ui.toWin)
LastEvents ==
  {"exhaustive-search-complete", "exhaustive-search-cancelled",
   "exhaustive-search-error"}
\* every request has been taken and every answer and event handled
NoneInFlight == ui.toMain = <<>> /\ ui.toWin = <<>>
\* the step in which handleExhaustiveSearch is called with mode m displayed
StartClick(m) == HandleExhaustiveSearch /\ documentMode = m
\* the step in which handleExhaustiveSearch passes its guards in mode m
StartsSweep(m) == StartClick(m) /\ ExhaustiveSearchGuard = "ok"
\* a start request of mode m is on its way to the main process
StartQueued(m) ==
  \E k \in 1..Len(ui.toMain) : ui.toMain[k] = Request("exhaustive-search", m)
\* the step in which handleExhaustiveSearch passes its guards in mode m and
\* the request it sends is one the main process accepts: it has the
\* handlers, no sweep of mode m is under way and no other start request of
\* mode m is ahead
BeginsSweep(m) ==
  /\ StartsSweep(m)
  /\ invokes.handlers
  /\ ~SweepActive(m)
  /\ ~StartQueued(m)

\* C28: the two modes are independent slots.  An event tagged with mode m
\* updates mode m's state object, whichever mode is displayed when the
\* window is handed it: the start event sets its progress to 0 of the
\* total, a progress event sets its progress and adds a result to its
\* buckets, the complete, cancelled and error events clear its running flag
\* and its progress; and none of them changes anything of the other mode's
\* state object.
C28_IndependentSlots ==
  [][\A m \in Modes :
       LET data == Head(ui.toWin).data
       IN /\ Handed("exhaustive-search-start", m) =>
               /\ ModeState(m)'.exhaustiveSearchProgress =
                    <<[current |-> 0, total |-> data.total, docPath |-> ""]>>
               /\ ModeState(OtherMode(m))' = ModeState(OtherMode(m))
          /\ Handed("exhaustive-search-progress", m) =>
               /\ ModeState(m)'.exhaustiveSearchProgress =
                    <<[current |-> data.current, total |-> data.total,
                       docPath |-> data.docPath]>>
               /\ BucketCount(ModeState(m)'.exhaustiveSearchResults) =
                    BucketCount(ModeState(m).exhaustiveSearchResults) + 1
               /\ ModeState(OtherMode(m))' = ModeState(OtherMode(m))
          /\ \A name \in LastEvents :
               Handed(name, m) =>
                 /\ ~ModeState(m)'.exhaustiveSearchRunning
                 /\ ModeState(m)'.exhaustiveSearchProgress = NoProgress
                 /\ ModeState(OtherMode(m))' = ModeState(OtherMode(m)) ]_vars

\* C29: a progress event of mode m's sweep adds its result to exactly one of
\* mode m's three buckets, the one of its verdict, and leaves the other two
\* as they were, so that after the k-th progress event of the sweep the
\* three buckets hold k results.
C29_OneBucketPerEvent ==
  [][\A m \in Modes :
       Handed("exhaustive-search-progress", m) =>
         LET prev == ModeState(m).exhaustiveSearchResults
             next == ModeState(m)'.exhaustiveSearchResults
             data == Head(ui.toWin).data
             bucket == BucketOf(data.result.classification)
         IN /\ next[bucket] = Append(prev[bucket], data.result)
            /\ \A b \in Buckets \ {bucket} : next[b] = prev[b]
            /\ BucketCount(next) = data.current ]_vars

\* the steps of a cancellation: the click, the main process taking the
\* request, the continuation or the catch of cancelExhaustiveSearch, and
\* the listener of the cancelled event
CancelSteps ==
  \/ CancelExhaustiveSearch
  \/ SweepCancelRequest
  \/ CancelExhaustiveSearchResume
  \/ CancelExhaustiveSearchCatch
  \/ \E m \in Modes : SweepCancelled(m)
  \/ \E m \in Modes : Handed("exhaustive-search-cancelled", m)

\* What holds of the buckets: no step of a cancellation changes a bucket of
\* either mode; no step at all takes a result out of a mode's buckets
\* except handleExhaustiveSearch passing its guards in that mode and the
\* user's re-filing of a result, which keeps every id the buckets hold.  The
\* continuation of cancelExhaustiveSearch clears the running flag of the
\* mode it was called in, and only handleExhaustiveSearch sets a flag; so
\* once the cancelled event has been sent and every message has been
\* handled, the flag is clear.
KeptUntilStartClick ==
  /\ [](\A m \in Modes :
          sweeps[m].pc = "cancelled" /\ NoneInFlight
            => ~ModeState(m).exhaustiveSearchRunning)
  /\ [][\A m \in Modes :
          LET prev == ModeState(m).exhaustiveSearchResults
              next == ModeState(m)'.exhaustiveSearchResults
          IN /\ CancelSteps => next = prev
             /\ \/ StartsSweep(m)
                \/ ClassifyExhaustiveResult /\ IdsOf(next) = IdsOf(prev)
                \/ \A b \in Buckets : IsPrefix(prev[b], next[b])
             /\ StartsSweep(m) =>
                  /\ next = EmptyResults
                  /\ ui'.toMain =
                       Append(ui.toMain, Request("exhaustive-search", m))
             /\ ( /\ CancelExhaustiveSearchResume
                  /\ Head(ui.toWin).data.mode = m )
                  => ~ModeState(m)'.exhaustiveSearchRunning
             /\ ( /\ ~ModeState(m).exhaustiveSearchRunning
                  /\ ModeState(m)'.exhaustiveSearchRunning )
                  => StartsSweep(m) ]_vars

\* C30 (as claimed): cancelling keeps the partial results.  No step of a
\* cancellation changes a bucket of either mode, and once the cancelled
\* event has been sent and every message has been handled the mode's
\* running flag is clear; the results a mode's buckets hold stay in them
\* until a new sweep is started in that mode: no step takes a result out of
\* the buckets except the start of a sweep the main process accepts, and
\* the user's re-filing of a result, after which the buckets hold as many
\* results, with the same ids, as before.
C30_CancelKeepsPartial ==
  /\ [](\A m \in Modes :
          sweeps[m].pc = "cancelled" /\ NoneInFlight
            => ~ModeState(m).exhaustiveSearchRunning)
  /\ [][\A m \in Modes :
          LET prev == ModeState(m).exhaustiveSearchResults
              next == ModeState(m)'.exhaustiveSearchResults
          IN /\ CancelSteps => next = prev
             /\ \/ BeginsSweep(m)
                \/ /\ ClassifyExhaustiveResult
                   /\ IdsOf(next) = IdsOf(prev)
                   /\ BucketCount(next) = BucketCount(prev)
                \/ \A b \in Buckets : IsPrefix(prev[b], next[b]) ]_vars

\* The all-documents sweep was cancelled after one of its chunks: the
\* cancelled event has been sent and handled, the request has returned, the
\* flag is clear and the one result is in its bucket.
CancelledWithPartial ==
  /\ sweeps["multi"].pc = "cancelled"
  /\ NoneInFlight
  /\ ~multiDocState.exhaustiveSearchRunning
  /\ multiDocState.exhaustiveSearchProgress = NoProgress
  /\ multiDocState.exhaustiveSearchResults =
       [EmptyResults EXCEPT !.uncertain = <<SweepResult(1, 3)>>]

\* the step in which the main process takes a start request for mode m, and
\* the one in which it refuses it
TakesStart(m) ==
  /\ Takes("exhaustive-search")
  /\ Head(ui.toMain).mode = m
  /\ ui'.toMain = Tail(ui.toMain)
RefusesStart(m) ==
  /\ TakesStart(m)
  /\ ui'.toWin = Append(ui.toWin, Answer("rejected", Head(ui.toMain)))

\* C31: a start request for a mode whose sweep is running is refused and
\* leaves that mode's running flag, progress and buckets, and the sweep
\* itself, as they were, from the call of handleExhaustiveSearch to the
\* refusal; a main process that has the handler refuses a start request
\* only while that mode's sweep is running, and begins the sweep of a mode
\* whose sweep is not running, whatever the other mode's sweep is doing.
C31_RefusedStartNoEffect ==
  [][\A m \in Modes :
       /\ SweepActive(m) /\ StartClick(m)
            => ModeState(m)' = ModeState(m) /\ sweeps'[m] = sweeps[m]
       /\ SweepActive(m) /\ TakesStart(m) => RefusesStart(m)
       /\ RefusesStart(m) =>
            /\ invokes.handlers => SweepActive(m)
            /\ ModeState(m)' = ModeState(m) /\ sweeps'[m] = sweeps[m]
       /\ invokes.handlers /\ ~SweepActive(m) /\ TakesStart(m)
            => sweeps'[m].pc = "accepted" /\ sweeps'[m].current = 0 ]_vars

\* C32: a failed classification call for one chunk does not abort the sweep.
\* The step in which a call fails leaves the sweep running, one chunk
\* further and not cancelled, and sends a progress event that carries the
\* chunk as uncertain with a reason; the listener of the displayed mode
\* puts such a result in the uncertain bucket; from then on the sweep can
\* classify each remaining chunk and, after the last one, send the complete
\* event.
C32_ChunkFailureIsolated ==
  /\ [][\A m \in Modes :
          /\ ~sweeps[m].failed /\ sweeps'[m].failed =>
               LET k == sweeps'[m].current
               IN /\ sweeps'[m].pc = "running"
                  /\ k = sweeps[m].current + 1
                  /\ sweeps'[m].cancel = sweeps[m].cancel
                  /\ FailedResult(k).classification \notin {1, 2}
                  /\ FailedResult(k).reason # ""
                  /\ ui'.toWin =
                       Append(ui.toWin,
                              Event("exhaustive-search-progress",
                                    [mode |-> m, current |-> k,
                                     total |-> sweeps[m].total, docPath |-> "d.pdf",
                                     result |-> FailedResult(k)]))
          /\ ( /\ Handed("exhaustive-search-progress", m)
               /\ documentMode = m
               /\ Head(ui.toWin).data.result.classification \notin {1, 2} ) =>
               LET prev == ModeState(m).exhaustiveSearchResults
                   next == ModeState(m)'.exhaustiveSearchResults
               IN /\ next.uncertain =
                       Append(prev.uncertain, Head(ui.toWin).data.result)
                  /\ next.relevant = prev.relevant
                  /\ next.nonRelevant = prev.nonRelevant ]_vars
  /\ [](\A m \in Modes :
          sweeps[m].failed /\ sweeps[m].pc = "running" /\ ~sweeps[m].cancel =>
            IF sweeps[m].current < sweeps[m].total
            THEN ENABLED SweepProgress(m)
            ELSE ENABLED SweepComplete(m))

\* The first call of the all-documents sweep failed, the second chunk was
\* classified after it, both results have reached their buckets, and the
\* sweep is about to send its complete event.
C32_Witness ==
  /\ sweeps["multi"].failed
  /\ sweeps["multi"].pc = "running"
  /\ sweeps["multi"].current = sweeps["multi"].total
  /\ sweeps["multi"].total >= 2
  /\ multiDocState.exhaustiveSearchResults.uncertain = <<FailedResult(1)>>
  /\ multiDocState.exhaustiveSearchResults.relevant = <<SweepResult(2, 1)>>

\* s without its element at position i
RemoveAt(s, i) == SubSeq(s, 1, i - 1) \o SubSeq(s, i + 1, Len(s))
\* the positions in bucket b of the results with this id
PosIn(b, resultId) == {i \in 1..Len(b) : ResultId(b[i]) = resultId}

\* C33 (as claimed): re-classification with target relevant or
\* non-relevant takes the result with the given id out of the bucket it is
\* in and puts it, with the new classification, at the end of the target
\* bucket; every other result stays in its bucket and in its order, and the
\* three buckets hold as many results as before.  An id no result has
\* changes nothing.
C33_ReclassifyMoves ==
  call.pc = "done" =>
    LET prev == call.prev
        out == call.out
        id == call.resultId
        target == BucketOf(call.newClassification)
        holders == {b \in Buckets : PosIn(prev[b], id) # {}}
    IN IF holders = {}
       THEN out = prev
       ELSE LET from == CHOOSE b \in holders : TRUE
                pos == CHOOSE i \in PosIn(prev[from], id) : TRUE
                moved == [prev[from][pos] EXCEPT !.classification = call.newClassification]
                Rest(b) == IF b = from THEN RemoveAt(prev[b], pos) ELSE prev[b]
            IN /\ BucketCount(out) = BucketCount(prev)
               /\ \A b \in Buckets :
                    out[b] = IF b = target THEN Append(Rest(b), moved) ELSE Rest(b)

\* run r has ended: its one terminal event is sent and no token is held
Terminated(r) ==
  /\ runs[r].pc = "done"
  /\ Cardinality(EventIdx(events, r, TerminalNames)) = 1
  /\ currentPreprocess = NULL

\* C34 (as claimed): the step in which a run ends releases the token, and
\* a new preprocess call is accepted afterwards.
C34_EndsThenAccepted ==
  [][ \A r \in RunIds :
        Ends(r) => currentPreprocess' = NULL /\ GuardNow' = "ok" ]_vars

\* C34 (amended): when every await settles, every accepted run ends,
\* whatever cancel, reset, set-settings, set-include-files or
\* select-workspace calls arrive meanwhile: its terminal event is sent and
\* the token released.  From the step in which it ends a preprocess call is
\* not answered already-running, and is accepted exactly when root, include
\* list and settings, as they are by then, pass the other guards.
C34_RunTerminates ==
  /\ \A r \in RunIds : Active(r) ~> Terminated(r)
  /\ [][ \A r \in RunIds :
          Ends(r) =>
            /\ Terminated(r)'
            /\ GuardNow' # MsgAlreadyRunning
            /\ (GuardNow' = "ok") = Configured' ]_vars

\* a run was cancelled and the workspace reset under it (a progress event
\* of it reports a total of 0); it has ended with its cancelled event, the
\* token is released, and with the workspace set up again a preprocess call
\* would be accepted
C34_Witness ==
  \E r \in RunIds :
    /\ Terminated(r)
    /\ runs[r].cause = "flag"
    /\ \E i \in EventIdx(events, r, {"preprocess-progress"}) :
         events[i].total = 0 /\ events[i].current > 0
    /\ GuardNow = "ok"

\* C35 (as claimed): a run for which preprocess-cancel returned true sends
\* no preprocess-complete, and once it has ended the collection holds no
\* document of it.
C35_CancelledNeverCompletes ==
  \A r \in RunIds :
    tokens[r].cancelled =>
      /\ EventIdx(events, r, {"preprocess-complete"}) = {}
      /\ (runs[r].pc = "done" => \A d \in 1..Len(docs) : docs[d].owner # r)

\* C36 (as claimed): in every progress event sent, of either phase,
\* 0 <= current <= total.
C36_ProgressWithinTotal ==
  \A i \in 1..Len(events) :
    events[i].name = "preprocess-progress" =>
      0 <= events[i].current /\ events[i].current <= events[i].total

\* run r is accepted in this step
Accepted(r) == runs[r].pc = "none" /\ runs'[r].pc # "none"

\* C37: the cancel token belongs to one run.  A run is accepted with a
\* token that is neither cancelled nor aborted, whatever cancel calls and
\* aborts came before, the step that accepts it leaves the tokens of the
\* runs before as they are and does not end it as cancelled; a token is
\* marked cancelled or aborted only while its run is the active one, and
\* the step marks no other token; a run ends as cancelled only if its own
\* token was marked.
C37_TokenPerRun ==
  [][ \A r \in RunIds :
        /\ Accepted(r) =>
              /\ ~tokens'[r].cancelled /\ ~tokens'[r].aborted
              /\ runs'[r].cause \notin {"flag", "abort"}
              /\ \A q \in RunIds \ {r} : tokens'[q] = tokens[q]
        /\ (~Accepted(r) /\
             (tokens'[r].cancelled # tokens[r].cancelled \/
              tokens'[r].aborted # tokens[r].aborted)) =>
              /\ Active(r) /\ currentPreprocess = r
              /\ tokens' = [tokens EXCEPT ![r].cancelled = TRUE, ![r].aborted = TRUE]
        /\ Ends(r) /\ runs'[r].cause \in {"flag", "abort"} =>
              tokens[r].cancelled /\ tokens[r].aborted ]_vars

\* the first run was cancelled and its request aborted: its token is
\* marked and it has ended; the second run, accepted after that, is past
\* its first batch of embeddings with a token that is neither cancelled
\* nor aborted
C37_Witness ==
  \E r, q \in RunIds :
    /\ r < q
    /\ runs[r].pc = "past"
    /\ tokens[r].cancelled /\ tokens[r].aborted /\ ~tokens[r].running
    /\ runs[q].pc = "embedAwait" /\ runs[q].processed > 0
    /\ currentPreprocess = q
    /\ tokens[q].running /\ ~tokens[q].cancelled /\ ~tokens[q].aborted

\* the five parameters a record (the settings, a run) holds
Params(x) ==
  [chunkSize |-> x.chunkSize, chunkOverlap |-> x.chunkOverlap,
   embeddingHost |-> x.embeddingHost, embeddingModel |-> x.embeddingModel,
   apiKey |-> x.apiKey]

\* the texts of the chunks of cs that are of page p, in their order
TextsOfPage(cs, p) ==
  LET ofPage == SelectSeq(cs, LAMBDA c : c.page = p)
  IN [k \in 1..Len(ofPage) |-> ofPage[k].text]

\* the chunks of document doc are, page after page, the windows that
\* chunkPageText cuts with this size and overlap
ChunkedWith(doc, size, overlap) ==
  LET pages == FilePages(doc.id)
  IN /\ \A k \in 1..Len(doc.chunks) : doc.chunks[k].page \in 1..Len(pages)
     /\ \A k \in 1..(Len(doc.chunks) - 1) : doc.chunks[k].page <= doc.chunks[k + 1].page
     /\ \A p \in 1..Len(pages) :
          LET windows == chunkPageText(pages[p], p, size, overlap)
          IN TextsOfPage(doc.chunks, p) = [k \in 1..Len(windows) |-> windows[k].text]

\* document d of the collection is written in this step
Stored(d) ==
  \/ d > Len(docs)
  \/ docs'[d].id # docs[d].id
  \/ docs'[d].owner # docs[d].owner
  \/ [k \in 1..Len(docs'[d].chunks) |-> docs'[d].chunks[k].id] #
       [k \in 1..Len(docs[d].chunks) |-> docs[d].chunks[k].id]

\* C38: a run works with the chunk size, overlap, host, model and key of
\* the settings as they were when it was accepted.  The five values the
\* invocation took at its acceptance are those of the settings then and
\* stay the same as long as the run is under way, whatever set-settings
\* does meanwhile; every document the run stores is chunked with that size
\* and overlap, and every embedding request it makes goes to the URL of
\* that host, names that model and carries that key.
C38_SettingsSnapshot ==
  [][ \A r \in RunIds :
        /\ Accepted(r) /\ Active(r)' => Params(runs'[r]) = Params(settings)
        /\ Active(r) /\ Active(r)' => Params(runs'[r]) = Params(runs[r])
        /\ Active(r)' =>
              \A d \in 1..Len(docs') :
                docs'[d].owner = r /\ Stored(d) =>
                  ChunkedWith(docs'[d], runs'[r].chunkSize, runs'[r].chunkOverlap)
        /\ runs'[r].pc = "embedAwait" =>
              /\ runs'[r].request.url = runs'[r].embeddingHost \o "/v1/embeddings"
              /\ runs'[r].request.model = runs'[r].embeddingModel
              /\ runs'[r].request.authorization =
                   (IF runs'[r].apiKey = "" THEN "" ELSE "Bearer " \o runs'[r].apiKey) ]_vars

\* a run accepted with the default chunk size and the host http://h is in
\* its embed phase with a request to that host under way; the settings now
\* ask for windows of 200 and name no host, and b.txt, which the run
\* reached after its first await, is stored as one chunk
C38_Witness ==
  \E r \in RunIds :
    /\ runs[r].pc = "embedAwait"
    /\ runs[r].chunkSize = 1200 /\ settings.chunkSize = 200
    /\ settings.embeddingHost = ""
    /\ runs[r].request.url = "http://h/v1/embeddings"
    /\ runs[r].request.model = "m"
    /\ runs[r].files = <<"a.pdf", "c.doc", "b.txt", "a.pdf">>
    /\ \E d \in 1..Len(docs) :
         docs[d].id = "b.txt" /\ docs[d].owner = r /\ Len(docs[d].chunks) = 1

\* C39 (as claimed): whenever a preprocessing run is active in the main
\* process, the window's processing flag is set.
C39_ProcessingWhileActive ==
  AnyActive => ui.processing

\* a / b rounded up, for a >= 0 and b > 0
CeilDiv(a, b) == (a + b - 1) \div b

\* the number of windows the claim gives for n characters
ClaimedCount(n, size, step) ==
  IF n <= size THEN 1 ELSE 1 + CeilDiv(n - size, step)

\* C40 (as claimed): for every text, size and overlap the call returns, the
\* window start advances by size - ov > 0, and the number of windows is 1
\* when the text fits in one window and 1 + ceil((length - size) /
\* (size - ov)) otherwise.
C40_CountForEveryText ==
  Returned =>
    LET size == EffSize(call.chunkSize)
        step == size - EffOverlap(call.chunkSize, call.overlap)
    IN /\ step > 0
       /\ Len(call.out) = ClaimedCount(Len(call.text), size, step)

\* C40 (amended): for every text, size and overlap the call returns, and
\* the window start advances by size - ov > 0 on every iteration.  A text
\* that is empty or whitespace-only gives no window; any other text gives
\* 1 window when it fits in one and 1 + ceil((length - size) / (size - ov))
\* otherwise, the last of them ending where the text ends.
C40_WindowCount ==
  Returned =>
    LET size == EffSize(call.chunkSize)
        step == size - EffOverlap(call.chunkSize, call.overlap)
        n == Len(call.text)
        c == Len(call.out)
    IN /\ step > 0
       /\ ~NonBlank(call.text) => c = 0
       /\ NonBlank(call.text) =>
            /\ c = ClaimedCount(n, size, step)
            /\ (c - 1) * step + Len(call.out[c].text) = n

\* a text longer than a window was cut with an overlap asked for that is
\* not below the chunk size: the cap left a step of 40 and at least four
\* windows came out
C40_Witness ==
  /\ Returned /\ NonBlank(call.text)
  /\ call.overlap >= call.chunkSize /\ call.chunkSize >= 200
  /\ EffSize(call.chunkSize) - EffOverlap(call.chunkSize, call.overlap) = 40
  /\ Len(call.out) >= 4
  /\ Len(call.out) = 1 + CeilDiv(Len(call.text) - 200, 40)

====
